---- MODULE Spec2Model ----
(***************************************************************************)
(* A model of the TikTok analyzer backend (src/backend/main.py): the       *)
(* enrichment resolver get_user_by_username, the identifier extractor,     *)
(* the relevance scorers and the web_enhanced_search orchestrator.         *)
(*                                                                         *)
(* Strings whose characters matter (handles) are sequences of one-char     *)
(* strings; scores are integers in hundredths (0.5 is 50); an optional     *)
(* value is a sequence of length 0 (None) or 1.                            *)
(***************************************************************************)
EXTENDS Integers, Sequences, FiniteSets, TLC

\* ------------------------------------------------------------------------
\* Optional values and characters
\* ------------------------------------------------------------------------
None == <<>>

Some(x) == <<x>>

IsNone(o) == Len(o) = 0

\* str.lower() on the letters the model uses
ToLower ==
    [c \in {"A", "B", "C", "E", "I", "J", "O", "P", "R", "S", "T"} |->
        CASE c = "A" -> "a" [] c = "B" -> "b" [] c = "C" -> "c"
          [] c = "E" -> "e" [] c = "I" -> "i" [] c = "J" -> "j"
          [] c = "O" -> "o" [] c = "P" -> "p" [] c = "R" -> "r"
          [] c = "S" -> "s" [] OTHER -> "t"]

LowerChar(c) == IF c \in DOMAIN ToLower THEN ToLower[c] ELSE c

Lower(s) == [i \in 1..Len(s) |-> LowerChar(s[i])]

\* ------------------------------------------------------------------------
\* State
\* ------------------------------------------------------------------------
\* get_user_by_username
VARIABLES
    username,            \* argument of get_user_by_username
    pc,                  \* "approach1" .. "approach4", "done"
    retry_count,         \* attempts used at the current endpoint
    user_needs_search,
    result,              \* returned value: None or Some(record)
    result_from,         \* endpoint whose payload the result was built from
    requests_sent,       \* requests sent to each endpoint in this call
    waits,               \* backoff waits slept at the current endpoint
    wait_time,           \* the wait the latest loop iteration slept, 0 if
                         \* it did not sleep
    last_exchange,       \* endpoint and outcome of the latest request
    user_list,           \* the user_list out of which approach 3 built the
                         \* returned record
    scenario             \* TRUE while every exchange so far is one that
                         \* the providers of Scenario C give

resolver_vars ==
    <<username, pc, retry_count, user_needs_search, result, result_from,
      requests_sent, waits, wait_time, last_exchange, user_list, scenario>>

\* extract_tiktok_usernames
VARIABLES
    extract_pc,          \* "call" before the call, "done" after it
    url_username,        \* the handle cut out of the url, if the url has one
    regex_matches,       \* what the patterns find in the text, in order
    filtered_usernames   \* the list the extractor returns

extractor_vars ==
    <<extract_pc, url_username, regex_matches, filtered_usernames>>

\* analyze_profile_relevance
VARIABLES
    analysis_pc,         \* "call" before the call, "done" after it
    completion,          \* what the LLM call came to
    relevance_analysis   \* the dict the scorer returns

scorer_vars == <<analysis_pc, completion, relevance_analysis>>

\* web_enhanced_search
VARIABLES
    wes_pc,              \* "criteria", "search", "batch", "loop", "degrade",
                         \* "done" (response returned), "failed" (HTTP 500)
    query,               \* request.query
    max_results,         \* request.max_results
    min_relevance_score, \* request.min_relevance_score, in hundredths
    criteria_completion, \* what the criteria LLM call came to
    required_criteria,   \* search_response.required_criteria
    usernames,           \* the gathered candidates
    position,            \* index of the candidate the for loop is at
    analyzed_count,
    successful_count,
    user_matches,        \* matches of the scored path
    top_usernames,       \* candidates of the degradation path
    matches,             \* search_response.matches
    tavily_results,      \* what perform_tavily_search returned
    resolver_calls,      \* get_user_by_username calls made by the request
    gate                 \* the profile the quality gate saw last and what
                         \* became of it

wes_vars ==
    <<wes_pc, query, max_results, min_relevance_score, criteria_completion,
      required_criteria, usernames, position, analyzed_count,
      successful_count, user_matches, top_usernames, matches,
      tavily_results, resolver_calls, gate>>

\* candidate gathering of search_for_tiktok_profiles and of search_users
VARIABLES
    gather_pc,           \* "sfp_direct", "sfp_web", "sfp_score" in
                         \* search_for_tiktok_profiles; "su_web", "su_direct"
                         \* "su_enrich" in search_users; "done" and
                         \* "su_done" once the function has returned
    count,               \* max_results of search_for_tiktok_profiles,
                         \* request.count of search_users
    web_failed,          \* perform_tavily_search returned None
    direct_failed,       \* the search-users request of the direct search
                         \* failed
    extracted_usernames, \* the handles the web hits gave
    tiktok_usernames,    \* what search_directly_on_tiktok returned
    all_usernames,       \* the aggregated candidate list
    final_results,       \* what search_for_tiktok_profiles returns
    su_position,         \* search_users: index of the candidate being enriched
    su_users,               \* search_users: the enriched users, then the response
    enrich_calls         \* search_users: get_user_by_username calls made

gather_vars ==
    <<gather_pc, count, web_failed, direct_failed, extracted_usernames,
      tiktok_usernames, all_usernames, final_results, su_position, su_users,
      enrich_calls>>

\* is_valid_tiktok_username
VARIABLES
    validate_pc,         \* "call" before the call, "done" after it
    candidate,           \* the string the validator is given
    accepted             \* what the validator returned

validator_vars == <<validate_pc, candidate, accepted>>

\* the relevance loop of search_directly_on_tiktok
VARIABLES
    direct_pc,           \* "call" before the call, "done" after it
    direct_users,        \* data["user_list"] of the provider
    relevances           \* search_relevance of the listed users, in
                         \* millionths

direct_vars == <<direct_pc, direct_users, relevances>>

\* the query rewrite of perform_tavily_search
VARIABLES
    rewrite_pc,          \* "call" before the rewrite, "done" after it
    search_query,        \* the query argument, as its list of words
    enhanced_query       \* the phrasing chosen and the parts put into it

rewrite_vars == <<rewrite_pc, search_query, enhanced_query>>

\* is_security_privacy_focused and security_privacy_relevance_score
VARIABLES
    niche_pc,            \* "call" before the calls, "done" after them
    user,                \* the user dict the helpers are given
    is_focused,          \* what is_security_privacy_focused returned
    relevance_score      \* what security_privacy_relevance_score returned,
                         \* in hundredths

niche_vars == <<niche_pc, user, is_focused, relevance_score>>

\* score_usernames_relevance
VARIABLES
    batch_pc,            \* "call", "llm" while the LLM is asked, "done"
    batch,               \* the usernames argument
    batch_reply,         \* what the LLM call came to, None before it
    llm_calls,           \* LLM calls made by the function
    scored_usernames     \* the list the function returns

batch_vars ==
    <<batch_pc, batch, batch_reply, llm_calls, scored_usernames>>

\* the end of search_users: the ordering and the filters
VARIABLES
    order_pc,            \* "sort" before line 1772, "done" at the return
    request,             \* query, criteria given or not, deep_analysis
    enriched,            \* the users list the enrichment loop built
    returned             \* the list search_users returns

order_vars == <<order_pc, request, enriched, returned>>

\* the candidate loop of an orchestrator, request by request
VARIABLES
    seq_pc,              \* "head", "call", "reply", "after", "done"
    orchestrator,        \* "wes": web_enhanced_search, "su": search_users
    current,             \* index of the candidate being processed
    phase,               \* "resolver", "videos" or "llm"
    attempts,            \* requests sent in the phase
    outstanding,         \* the requests sent and not yet answered
    asleep,              \* inside asyncio.sleep
    answer,              \* what the last request came to
    finished,            \* the candidates whose processing has ended
    backoffs             \* backoff waits per candidate

seq_vars ==
    <<seq_pc, orchestrator, current, phase, attempts, outstanding, asleep,
      answer, finished, backoffs>>

vars ==
    <<resolver_vars, extractor_vars, scorer_vars, wes_vars, gather_vars,
      validator_vars, direct_vars,
                rewrite_vars, niche_vars, batch_vars,
                order_vars,
                seq_vars>>

\* a component that is not running
ResolverIdle ==
    /\ username = <<>>
    /\ pc = "idle"
    /\ retry_count = 0
    /\ user_needs_search = FALSE
    /\ result = None
    /\ result_from = 0
    /\ requests_sent = [e \in 1..4 |-> 0]
    /\ waits = <<>>
    /\ wait_time = 0
    /\ last_exchange = [endpoint |-> 0, kind |-> "none"]
    /\ user_list = <<>>
    /\ scenario = FALSE

ExtractorIdle ==
    /\ extract_pc = "idle"
    /\ url_username = None
    /\ regex_matches = <<>>
    /\ filtered_usernames = <<>>

RewriteIdle ==
    /\ rewrite_pc = "idle"
    /\ search_query = <<>>
    /\ enhanced_query = <<>>

NicheIdle ==
    /\ niche_pc = "idle"
    /\ user = <<>>
    /\ is_focused = FALSE
    /\ relevance_score = 0

SeqIdle ==
    /\ seq_pc = "idle"
    /\ orchestrator = "none"
    /\ current = 0
    /\ phase = "none"
    /\ attempts = 0
    /\ outstanding = {}
    /\ asleep = FALSE
    /\ answer = "none"
    /\ finished = {}
    /\ backoffs = <<>>

OrderIdle ==
    /\ order_pc = "idle"
    /\ request = <<>>
    /\ enriched = <<>>
    /\ returned = <<>>

BatchIdle ==
    /\ batch_pc = "idle"
    /\ batch = <<>>
    /\ batch_reply = <<>>
    /\ llm_calls = 0
    /\ scored_usernames = <<>>

ValidatorIdle ==
    /\ validate_pc = "idle"
    /\ candidate = <<>>
    /\ accepted = FALSE

DirectIdle ==
    /\ direct_pc = "idle"
    /\ direct_users = <<>>
    /\ relevances = <<>>

ScorerIdle ==
    /\ analysis_pc = "idle"
    /\ completion = <<>>
    /\ relevance_analysis = <<>>

GatherIdle ==
    /\ gather_pc = "idle"
    /\ count = 0
    /\ web_failed = FALSE
    /\ direct_failed = FALSE
    /\ extracted_usernames = <<>>
    /\ tiktok_usernames = <<>>
    /\ all_usernames = <<>>
    /\ final_results = <<>>
    /\ su_position = 0
    /\ su_users = <<>>
    /\ enrich_calls = 0

WesIdle ==
    /\ wes_pc = "idle"
    /\ query = ""
    /\ max_results = 0
    /\ min_relevance_score = 0
    /\ criteria_completion = ""
    /\ required_criteria = <<>>
    /\ usernames = <<>>
    /\ position = 0
    /\ analyzed_count = 0
    /\ successful_count = 0
    /\ user_matches = <<>>
    /\ top_usernames = <<>>
    /\ matches = <<>>
    /\ tavily_results = None
    /\ resolver_calls = 0
    /\ gate = None

\* the length limits of is_valid_tiktok_username
MinLen == 2

MaxLen == 24

\* the handles the inputs are built from; "NL" is a newline and "e'" a
\* letter outside ASCII
H ==
    [bob |-> <<"b", "o", "b">>,
     BOB |-> <<"B", "O", "B">>,
     eve |-> <<"e", "v", "e">>,
     jo |-> <<"j", "o">>,
     Jo |-> <<"J", "o">>,
     JO |-> <<"J", "O">>,
     ab1 |-> <<"a", ".", "b", "1">>,
     top |-> <<"t", "o", "p">>,
     Top |-> <<"T", "o", "p">>,
     underscore |-> <<"_", "j", "o">>,
     dot |-> <<".", "j", "o">>,
     accent |-> <<"e'", "v", "e">>,
     short |-> <<"a">>,
     dash |-> <<"j", "-", "o">>,
     at |-> <<"@", "j", "o">>,
     newline |-> <<"j", "o", "NL">>,
     long |-> [i \in 1..(MaxLen + 1) |-> "a"],
     max |-> [i \in 1..MaxLen |-> "b"]]

\* ------------------------------------------------------------------------
\* get_user_by_username: the enrichment resolver
\* ------------------------------------------------------------------------
max_retries == 3

backoff_time == 2

Pow2(n) == IF n = 0 THEN 1 ELSE IF n = 1 THEN 2 ELSE IF n = 2 THEN 4 ELSE 8

ResolverInputs == {H.bob, H.BOB}

\* a field a provider payload may leave out
ABSENT == "<absent>"

ABSENT_N == -1

\* a field a provider payload holds with the JSON value null
NULL == "<null>"

\* the values provider payloads carry
NicknameVals == {ABSENT, "Nick"}

SignatureVals == {ABSENT, NULL, "", "a bio"}

FollowerVals == {ABSENT_N, 0, 50, 5000}

UidVals == {ABSENT, "u1"}

\* the profile object of a provider payload
RawProfile ==
    [nickname : NicknameVals, signature : SignatureVals,
     follower_count : FollowerVals, uid : UidVals]

\* one entry of the search-users user_list: with or without "user_info"
Entry(info, id, nick, fc) ==
    [has_info |-> info, unique_id |-> id, nickname |-> nick,
     signature |-> ABSENT, follower_count |-> fc, uid |-> ABSENT]

UserListEntry ==
    {Entry(FALSE, H.eve, ABSENT, ABSENT_N),
     Entry(TRUE, H.bob, ABSENT, 5000),
     Entry(TRUE, H.BOB, "Nick", 5000),
     Entry(TRUE, H.eve, "Nick", ABSENT_N)}

MaxUserList == 3

UserLists == UNION {[1..n -> UserListEntry] : n \in 0..MaxUserList}

\* what one HTTP exchange with an endpoint can come to
\*   ok          200, payload holds the profile key and a profile object
\*   ok_null     200, payload holds the profile key with a null value
\*   no_key      200, payload lacks the profile key
\*   bad_json    200, body cannot be decoded (response.json() raises)
\*   s429        HTTP 429
\*   status_other any other status (500, 404, ...)
\*   timeout     requests.exceptions.ReadTimeout
\*   conn_error  any other exception of requests.get
OutcomeKinds ==
    {"ok", "ok_null", "no_key", "bad_json", "s429", "status_other",
     "timeout", "conn_error"}

\* the search-users endpoint may also answer 200 with a user_list that
\* holds no usable entry
OutcomeKinds3 == OutcomeKinds \cup {"no_user"}

\* canonical record of the resolver
Record(nick, sig, fc, avatar, uid) ==
    [nickname |-> nick, signature |-> sig, follower_count |-> fc,
     avatar |-> avatar, uid |-> uid]

\* dict.get(key, default)
Get(v, default) == IF v = ABSENT THEN default ELSE v

GetN(v, default) == IF v = ABSENT_N THEN default ELSE v

\* the handle as the text of the nickname field
NameOf(u) == <<"handle", u>>

NickText(n) == <<"text", n>>

\* the minimal user object of the FALLBACK block
MinimalUser(u) ==
    Record(NameOf(u), "Profile information not available", 0, "", "")

\* endpoints 1 and 4 return data["user"] as it came
Passthrough(p) ==
    Record(IF p.nickname = ABSENT THEN NickText(ABSENT)
           ELSE NickText(p.nickname),
           p.signature, p.follower_count, ABSENT, p.uid)

\* endpoints 2 and 3 convert to the standard format
Normalise(p, u) ==
    Record(IF p.nickname = ABSENT THEN NameOf(u) ELSE NickText(p.nickname),
           Get(p.signature, "No bio available"),
           GetN(p.follower_count, 0), "", Get(p.uid, ""))

InitResolver ==
    /\ username \in ResolverInputs
    /\ pc = "approach1"
    /\ retry_count = 0
    /\ user_needs_search = TRUE
    /\ result = None
    /\ result_from = 0
    /\ requests_sent = [e \in 1..4 |-> 0]
    /\ waits = <<>>
    /\ wait_time = 0
    /\ last_exchange = [endpoint |-> 0, kind |-> "none"]
    /\ user_list = <<>>
    /\ scenario = TRUE
    /\ ExtractorIdle
    /\ ScorerIdle
    /\ WesIdle
    /\ GatherIdle
    /\ ValidatorIdle
    /\ DirectIdle
    /\ RewriteIdle
    /\ NicheIdle
    /\ BatchIdle
    /\ OrderIdle
    /\ SeqIdle

\* Scenario C of the specification: what endpoint e answers to its n-th
\* request (endpoint 1: 429, 429, then a timeout; endpoint 2: HTTP 500;
\* endpoint 3: a valid payload; endpoint 4: anything)
ScenarioC(e, n, kind) ==
    CASE e = 1 -> \/ n <= 2 /\ kind = "s429"
                  \/ n = 3 /\ kind = "timeout"
                  \/ n > 3
      [] e = 2 -> kind = "status_other"
      [] e = 3 -> kind = "ok"
      [] OTHER -> TRUE

ApproachName(e) ==
    CASE e = 1 -> "approach1" [] e = 2 -> "approach2"
      [] e = 3 -> "approach3" [] OTHER -> "approach4"

\* return user_data
Return(e, rec) ==
    /\ pc' = "done"
    /\ result' = Some(rec)
    /\ result_from' = e
    /\ user_needs_search' = FALSE
    /\ wait_time' = 0
    /\ UNCHANGED <<retry_count, waits>>

\* a resolver that passes over the endpoint after the one it abandoned
LeaveLoop_skip(e, needs) ==
    IF ~needs
    THEN /\ pc' = "done"
         /\ result' = None
         /\ result_from' = 0
    ELSE IF e < 3
    THEN /\ pc' = ApproachName(e + 2)
         /\ UNCHANGED <<result, result_from>>
    ELSE /\ pc' = "done"
         /\ result' = Some(MinimalUser(username))
         /\ result_from' = 0

\* leave the while loop of endpoint e with nothing returned: the next
\* "if user_needs_search" block runs, the FALLBACK block after the last
LeaveLoop(e, needs) ==
    IF ~needs
    THEN /\ pc' = "done"           \* every later block is skipped and the
         /\ result' = None         \* function ends without a return value
         /\ result_from' = 0
    ELSE IF e < 4
    THEN /\ pc' = ApproachName(e + 1)
         /\ UNCHANGED <<result, result_from>>
    ELSE /\ pc' = "done"
         /\ result' = Some(MinimalUser(username))
         /\ result_from' = 0

\* the loop body ended with retry_count = rc, having slept w (0: no sleep);
\* brk: the body executed "break"
EndIteration(e, rc, w, brk, needs) ==
    /\ user_needs_search' = needs
    /\ wait_time' = w
    /\ IF ~brk /\ rc < max_retries /\ needs
       THEN /\ retry_count' = rc
            /\ waits' = IF w > 0 THEN Append(waits, w) ELSE waits
            /\ UNCHANGED <<pc, result, result_from>>
       ELSE /\ retry_count' = 0
            /\ waits' = <<>>
            /\ LeaveLoop(e, needs)

Sent(e, kind, users) ==
    /\ requests_sent' = [requests_sent EXCEPT ![e] = @ + 1]
    /\ scenario' = (scenario /\ ScenarioC(e, requests_sent[e] + 1, kind))
    /\ last_exchange' = [endpoint |-> e, kind |-> kind]
    /\ user_list' = IF e = 3 /\ kind = "ok" THEN users ELSE user_list
    /\ UNCHANGED <<username, extractor_vars, scorer_vars, wes_vars,
                   gather_vars, validator_vars, direct_vars,
                rewrite_vars, niche_vars, batch_vars,
                order_vars,
                seq_vars>>

\* the "except Exception" branch of approaches 1-4: sleep unless the budget
\* is used up, then break
OnException(e, needs) ==
    LET rc == retry_count + 1 IN
    EndIteration(e, rc, IF rc < max_retries THEN backoff_time * rc ELSE 0,
                 ~(rc < max_retries), needs)

\* a 429 branch that sleeps without counting the attempt
On429Linear_uncounted(e) ==
    EndIteration(e, retry_count, backoff_time * (retry_count + 1), FALSE,
                 TRUE)

\* HTTP 429 at endpoints 2, 3 and 4: count, sleep, loop again
On429Linear(e) ==
    LET rc == retry_count + 1 IN
    EndIteration(e, rc, backoff_time * rc, FALSE, TRUE)

\* a resolver that retries the endpoint after any failed exchange
OnBreak_retry(e) == OnException(e, TRUE)

\* the else branch of "if response.status_code == 429": break
OnBreak(e) == EndIteration(e, retry_count, 0, TRUE, TRUE)

\* APPROACH 1: the user-info endpoint
Approach1(kind, p) ==
    /\ pc = "approach1"
    /\ Sent(1, kind, <<>>)
    /\ CASE kind = "ok" -> Return(1, Passthrough(p))
         [] kind = "ok_null" -> OnException(1, FALSE)
         [] kind = "s429" ->
              LET rc == retry_count + 1 IN
              EndIteration(1, rc, backoff_time * Pow2(rc), FALSE, TRUE)
         [] kind = "timeout" ->
              LET rc == retry_count + 1 IN
              EndIteration(1, rc, backoff_time * rc, FALSE, TRUE)
         [] kind \in {"bad_json", "conn_error"} -> OnException(1, TRUE)
         [] OTHER -> OnBreak(1)

\* APPROACH 2: the web/get-user endpoint
Approach2(kind, p) ==
    /\ pc = "approach2"
    /\ Sent(2, kind, <<>>)
    /\ CASE kind = "ok" -> Return(2, Normalise(p, username))
         [] kind = "s429" -> On429Linear(2)
         [] kind \in {"ok_null", "timeout", "bad_json", "conn_error"} ->
              OnException(2, TRUE)
         [] OTHER -> OnBreak(2)

\* a lookup that never finds the handle in the list
ExactMatch_none(users, u) == 0

\* index of the first user_list entry whose unique_id equals the handle
\* ignoring case, 0 if there is none
ExactMatch(users, u) ==
    LET hits == {i \in 1..Len(users) :
                    /\ users[i].has_info
                    /\ Lower(users[i].unique_id) = Lower(u)}
    IN IF hits = {} THEN 0
       ELSE CHOOSE i \in hits : \A j \in hits : i <= j

\* a user_list out of which approach 3 builds a profile
Usable(users, u) ==
    ExactMatch(users, u) > 0 \/ (Len(users) > 0 /\ users[1].has_info)

\* APPROACH 3: the search-users endpoint
Approach3(kind, users) ==
    /\ pc = "approach3"
    /\ Sent(3, kind, users)
    /\ CASE kind \in {"ok", "no_user"} ->
              LET m == ExactMatch(users, username) IN
              IF m > 0 THEN Return(3, Normalise(users[m], username))
              ELSE IF Len(users) > 0 /\ users[1].has_info
              THEN Return(3, Normalise(users[1], username))
              ELSE OnBreak(3)
         [] kind = "s429" -> On429Linear(3)
         [] kind \in {"ok_null", "timeout", "bad_json", "conn_error"} ->
              OnException(3, TRUE)
         [] OTHER -> OnBreak(3)

\* APPROACH 4: the alternative provider
Approach4(kind, p) ==
    /\ pc = "approach4"
    /\ Sent(4, kind, <<>>)
    /\ CASE kind = "ok" -> Return(4, Passthrough(p))
         [] kind = "ok_null" -> OnException(4, FALSE)
         [] kind = "s429" -> On429Linear(4)
         [] kind \in {"timeout", "bad_json", "conn_error"} ->
              OnException(4, TRUE)
         [] OTHER -> OnBreak(4)

\* a profile object is part of the exchange only when the outcome is "ok"
NoProfile ==
    [nickname |-> ABSENT, signature |-> ABSENT, follower_count |-> ABSENT_N,
     uid |-> ABSENT]

ProfilesOf(kind) == IF kind = "ok" THEN RawProfile ELSE {NoProfile}

UserListsOf(kind, u) ==
    CASE kind = "ok" -> {l \in UserLists : Usable(l, u)}
      [] kind = "no_user" -> {l \in UserLists : ~Usable(l, u)}
      [] OTHER -> {<<>>}

NextResolver ==
    \/ \E kind \in OutcomeKinds : \E p \in ProfilesOf(kind) :
          Approach1(kind, p)
    \/ \E kind \in OutcomeKinds : \E p \in ProfilesOf(kind) :
          Approach2(kind, p)
    \/ \E kind \in OutcomeKinds3 : \E users \in UserListsOf(kind, username) :
          Approach3(kind, users)
    \/ \E kind \in OutcomeKinds : \E p \in ProfilesOf(kind) :
          Approach4(kind, p)

SpecResolver == InitResolver /\ [][NextResolver]_vars

\* C1: the resolver is total: it always returns a record, never null, and
\* when no endpoint gave a profile the record is the placeholder named
\* after the requested handle, with 0 followers and empty avatar and id.
C1_ResolverTotal ==
    pc = "done" =>
        /\ ~IsNone(result)
        /\ result_from = 0 => result = Some(MinimalUser(username))

\* C2: Scenario C: endpoint 1 answers 429, 429, timeout, endpoint 2 answers
\* HTTP 500 and endpoint 3 succeeds: the result is a record built from
\* endpoint 3's payload, not the placeholder; endpoint 2 got exactly one
\* request and endpoint 4 none.
C2_ScenarioC ==
    (pc = "done" /\ scenario) =>
        /\ ~IsNone(result)
        /\ result_from = 3
        /\ result # Some(MinimalUser(username))
        /\ requests_sent[1] = 3
        /\ requests_sent[2] = 1
        /\ requests_sent[3] = 1
        /\ requests_sent[4] = 0

C2_Witness ==
    /\ pc = "done"
    /\ scenario
    /\ requests_sent[3] = 1
    /\ result_from = 3

\* outcomes that are neither a rate limit nor a timeout: another status, a
\* payload without the profile key, a body that cannot be decoded
Abandoning == {"status_other", "no_key", "bad_json"}

\* C14: after an outcome that is neither a 429 nor a timeout (another
\* non-200 status, a 200 without the profile key, an undecodable payload)
\* the endpoint gets no further request: the resolver is at the next
\* endpoint of the chain, or has returned after the last one.
C14_NoRetryAfterFailure ==
    last_exchange.kind \in Abandoning =>
        pc = IF last_exchange.endpoint < 4
             THEN ApproachName(last_exchange.endpoint + 1)
             ELSE "done"

TotalRequests ==
    requests_sent[1] + requests_sent[2] + requests_sent[3] + requests_sent[4]

\* C15: every endpoint gets at most max_retries requests; while the
\* resolver is at an endpoint its attempt counter equals the requests that
\* endpoint got, whatever their outcomes were, so it started again at 0;
\* a call sends at most 4 * max_retries requests and has returned once it
\* sent that many.
C15_RetryBudget ==
    /\ \A e \in 1..4 :
          /\ requests_sent[e] <= max_retries
          /\ pc = ApproachName(e) =>
                /\ retry_count = requests_sent[e]
                /\ retry_count < max_retries
    /\ TotalRequests <= 4 * max_retries
    /\ TotalRequests = 4 * max_retries => pc = "done"

C15_Witness ==
    /\ pc = "done"
    /\ TotalRequests = 4 * max_retries
    /\ result = Some(MinimalUser(username))

\* the outcomes the resolver backs off after
Backoff == {"s429", "timeout"}

\* C16: at one endpoint every backoff wait is strictly longer than the
\* wait before it, and after every wait the same endpoint gets another
\* request.
C16_BackoffGrows ==
    /\ [][(/\ last_exchange.kind \in Backoff
           /\ last_exchange'.kind \in Backoff
           /\ last_exchange'.endpoint = last_exchange.endpoint)
              => wait_time' > wait_time]_vars
    /\ []((wait_time > 0 /\ last_exchange.kind \in Backoff)
              => pc = ApproachName(last_exchange.endpoint))

\* the endpoint the resolver is at; 5 once it has returned
EndpointAt(p) ==
    CASE p = "approach1" -> 1 [] p = "approach2" -> 2
      [] p = "approach3" -> 3 [] p = "approach4" -> 4 [] OTHER -> 5

\* C17: the endpoints are contacted in the fixed order 1, 2, 3, 4: every
\* request goes to the endpoint the resolver is at, the resolver moves
\* only to the next endpoint, with nothing returned and the counter at 0,
\* or returns; it never goes back, and once a profile was returned no
\* request is sent.
C17_FixedOrder ==
    [][/\ IsNone(result)
       /\ EndpointAt(pc) <= 4
       /\ requests_sent' =
             [requests_sent EXCEPT ![EndpointAt(pc)] = @ + 1]
       /\ EndpointAt(pc') \in {EndpointAt(pc), EndpointAt(pc) + 1, 5}
       /\ (EndpointAt(pc') <= 4 /\ EndpointAt(pc') # EndpointAt(pc)) =>
             /\ IsNone(result')
             /\ retry_count' = 0]_vars

C17_Witness ==
    /\ pc = "done"
    /\ result_from = 2
    /\ requests_sent[1] = max_retries
    /\ requests_sent[2] = 1
    /\ requests_sent[3] = 0
    /\ requests_sent[4] = 0

\* ------------------------------------------------------------------------
\* extract_tiktok_usernames, is_valid_tiktok_username, filter_valid_usernames
\* ------------------------------------------------------------------------
\* character classes of the patterns; "NL" is the newline character and
\* "e'" a letter outside ASCII
AsciiLetters ==
    {"a", "b", "e", "j", "o", "p", "t", "v", "A", "B", "E", "J", "O", "P", "T"}

Digits == {"1", "2"}

\* \w of Python 3: letters of any script, digits and the underscore
WordChars == AsciiLetters \cup Digits \cup {"_", "e'"}

Whitespace == {" ", "NL"}

RECURSIVE AsString(_)
AsString(s) == IF s = <<>> THEN "" ELSE s[1] \o AsString(Tail(s))

common_words ==
    {"tiktok", "for", "top", "best", "from", "with", "has", "influencer",
     "creator", "africa", "south", "asia", "europe", "america", "north",
     "usa", "marketing", "business", "tech", "fashion", "beauty", "fitness",
     "food", "travel", "srsltid", "html", "www", "http", "https", "com",
     "net", "org", "influencers", "marketers", "followers", "popular",
     "discover", "account", "accounts", "users", "user", "handle", "profile",
     "website", "site", "page", "pages", "search", "find", "results",
     "trending", "viral", "famous", "category", "categories", "report",
     "analysis", "data", "stats", "statistics", "social", "media",
     "platform", "app", "rketing"}

\* re.match(r'^[\w\.]+$', s): "$" also matches before one final newline
MatchesCharClass(s) ==
    LET body == IF Len(s) > 1 /\ s[Len(s)] = "NL"
                THEN SubSeq(s, 1, Len(s) - 1) ELSE s
    IN /\ Len(body) > 0
       /\ \A i \in 1..Len(body) : body[i] \in WordChars \cup {"."}

is_valid_tiktok_username(s) ==
    /\ Len(s) >= MinLen
    /\ Len(s) <= MaxLen
    /\ MatchesCharClass(s)
    /\ s[1] \in AsciiLetters \cup Digits
    /\ AsString(Lower(s)) \notin common_words

\* str.strip(chars)
RECURSIVE LStrip(_, _)
LStrip(s, chars) ==
    IF s # <<>> /\ s[1] \in chars THEN LStrip(Tail(s), chars) ELSE s

RECURSIVE RStrip(_, _)
RStrip(s, chars) ==
    IF s # <<>> /\ s[Len(s)] \in chars
    THEN RStrip(SubSeq(s, 1, Len(s) - 1), chars) ELSE s

Strip(s, chars) == RStrip(LStrip(s, chars), chars)

Contains(list, x) == \E i \in 1..Len(list) : list[i] = x

ContainsLower(list, x) == \E i \in 1..Len(list) : Lower(list[i]) = Lower(x)

\* [u for u in usernames if is_valid_tiktok_username(u)]
RECURSIVE FilterValid(_)
FilterValid(list) ==
    IF list = <<>> THEN <<>>
    ELSE IF is_valid_tiktok_username(list[1])
    THEN <<list[1]>> \o FilterValid(Tail(list))
    ELSE FilterValid(Tail(list))

\* the "seen" comprehension: keep the first of the entries with one lower()
RECURSIVE Unique(_, _)
Unique(list, acc) ==
    IF list = <<>> THEN acc
    ELSE IF ContainsLower(acc, list[1]) THEN Unique(Tail(list), acc)
    ELSE Unique(Tail(list), Append(acc, list[1]))

\* a filter that compares the spellings as they are
RECURSIVE Unique_exact(_, _)
Unique_exact(list, acc) ==
    IF list = <<>> THEN acc
    ELSE IF Contains(acc, list[1]) THEN Unique_exact(Tail(list), acc)
    ELSE Unique_exact(Tail(list), Append(acc, list[1]))

filter_valid_usernames_exact(list) ==
    Unique_exact(FilterValid(list), <<>>)

filter_valid_usernames(list) ==
    Unique(FilterValid(list), <<>>)

\* the loop over the pattern matches
RECURSIVE Collect(_, _)
Collect(found, acc) ==
    IF found = <<>> THEN acc
    ELSE LET u == Strip(Strip(found[1], {"@"}), Whitespace) IN
         IF is_valid_tiktok_username(u) /\ ~Contains(acc, u)
         THEN Collect(Tail(found), Append(acc, u))
         ELSE Collect(Tail(found), acc)

\* url: None or the text between "tiktok.com/@" and the next "/" or "?"
extract_tiktok_usernames(url, found) ==
    LET first == IF ~IsNone(url) /\ url[1] # <<>>
                    /\ is_valid_tiktok_username(url[1])
                 THEN <<url[1]>> ELSE <<>>
    IN filter_valid_usernames(Collect(found, first))

Captures ==
    {H.jo, H.Jo, H.JO, H.ab1, H.top, H.Top, H.underscore, H.dot, H.accent}

UrlHandles ==
    Captures \cup {<<>>, H.short, H.dash, H.at, H.newline, H.long, H.max}

MaxMatches == 3

MatchLists == UNION {[1..n -> Captures] : n \in 0..MaxMatches}

InitExtractor ==
    /\ extract_pc = "call"
    /\ url_username \in {None} \cup {Some(h) : h \in UrlHandles}
    /\ regex_matches \in MatchLists
    /\ filtered_usernames = <<>>
    /\ ResolverIdle
    /\ ScorerIdle
    /\ WesIdle
    /\ GatherIdle
    /\ ValidatorIdle
    /\ DirectIdle
    /\ RewriteIdle
    /\ NicheIdle
    /\ BatchIdle
    /\ OrderIdle
    /\ SeqIdle

Extract ==
    /\ extract_pc = "call"
    /\ extract_pc' = "done"
    /\ filtered_usernames' =
          extract_tiktok_usernames(url_username, regex_matches)
    /\ UNCHANGED <<url_username, regex_matches, resolver_vars, scorer_vars,
                   wes_vars, gather_vars, validator_vars, direct_vars,
                rewrite_vars, niche_vars, batch_vars,
                order_vars,
                seq_vars>>

NextExtractor == Extract

SpecExtractor == InitExtractor /\ [][NextExtractor]_vars

\* everything the extractor saw, in the order it saw it
Seen ==
    (IF IsNone(url_username) THEN <<>> ELSE url_username) \o regex_matches

FirstSeen(h) ==
    CHOOSE p \in 1..Len(Seen) :
        /\ Lower(Seen[p]) = Lower(h)
        /\ \A q \in 1..(p - 1) : Lower(Seen[q]) # Lower(h)

\* C7: the extractor's list has no two entries equal ignoring case, each
\* entry has the spelling of its first occurrence in the input, the entries
\* stand in the order of their first occurrences, and none is a stop-list
\* word.
C7_ExtractorDedup ==
    extract_pc = "done" =>
        LET out == filtered_usernames IN
        /\ \A i, j \in 1..Len(out) :
              i < j => Lower(out[i]) # Lower(out[j])
        /\ \A i \in 1..Len(out) :
              /\ \E p \in 1..Len(Seen) : Lower(Seen[p]) = Lower(out[i])
              /\ Seen[FirstSeen(out[i])] = out[i]
              /\ AsString(out[i]) \notin common_words
              /\ AsString(Lower(out[i])) \notin common_words
        /\ \A i, j \in 1..Len(out) :
              i < j => FirstSeen(out[i]) < FirstSeen(out[j])

\* two spellings of one handle were found and one entry was returned
C7_Witness ==
    /\ extract_pc = "done"
    /\ \E p, q \in 1..Len(Seen) :
          /\ Seen[p] # Seen[q]
          /\ Lower(Seen[p]) = Lower(Seen[q])
          /\ is_valid_tiktok_username(Seen[p])
    /\ \E p \in 1..Len(Seen) : AsString(Lower(Seen[p])) \in common_words
    /\ Len(filtered_usernames) = 2

\* ------------------------------------------------------------------------
\* is_valid_tiktok_username on its own
\* ------------------------------------------------------------------------
MaxInputLen == 3

\* a letter, a capital, a digit, the two punctuation marks the handles may
\* hold, one they may not, a letter outside ASCII and the newline
InputChars == {"a", "T", "1", "_", ".", "-", "e'", "NL"}

ValidatorInputs ==
    UNION {[1..n -> InputChars] : n \in 0..MaxInputLen}
    \cup {H.jo, H.top, H.Top, H.underscore, H.dot, H.accent, H.dash, H.at,
          H.newline, H.long, H.max}

InitValidator ==
    /\ validate_pc = "call"
    /\ candidate \in ValidatorInputs
    /\ accepted = FALSE
    /\ ResolverIdle
    /\ ExtractorIdle
    /\ ScorerIdle
    /\ WesIdle
    /\ GatherIdle
    /\ DirectIdle
    /\ RewriteIdle
    /\ NicheIdle
    /\ BatchIdle
    /\ OrderIdle
    /\ SeqIdle

Validate ==
    /\ validate_pc = "call"
    /\ validate_pc' = "done"
    /\ accepted' = is_valid_tiktok_username(candidate)
    /\ UNCHANGED <<candidate, resolver_vars, extractor_vars, scorer_vars,
                   wes_vars, gather_vars, direct_vars,
                rewrite_vars, niche_vars, batch_vars,
                order_vars,
                seq_vars>>

NextValidator == Validate

SpecValidator == InitValidator /\ [][NextValidator]_vars

\* C19: the validator returns true exactly when the four rules hold: the
\* length is between MinLen and MaxLen, every character is a letter, a
\* digit, an underscore or a dot, the first character is a letter or a
\* digit, and the lower-cased string is not a stop-list word.
C19_ValidatorRules ==
    validate_pc = "done" =>
        (accepted <=>
            /\ Len(candidate) >= MinLen
            /\ Len(candidate) <= MaxLen
            /\ \A i \in 1..Len(candidate) :
                  candidate[i] \in WordChars \cup {"."}
            /\ candidate[1] \in AsciiLetters \cup Digits
            /\ AsString(Lower(candidate)) \notin common_words)

\* ------------------------------------------------------------------------
\* analyze_profile_relevance: the profile scorer
\* ------------------------------------------------------------------------
\* scores in hundredths; the LLM is free to answer outside [0, 1]
ScoreVals == {-50, 0, 30, 50, 80, 100, 150}

\* the explanation texts
NULL_TEXT == "<null>"

LLM_TEXT == "the profile posts about the topic"

\* the score the reply carries
\*   absent   no relevance_score field (for a text: the pattern finds none)
\*   number   a number
\*   junk     something float() rejects (null, "high", a list; in a text:
\*            digits and dots that are no number, such as 1.2.3)
ScoreFields ==
    {[tag |-> "absent", val |-> 0], [tag |-> "junk", val |-> 0]}
    \cup [tag : {"number"}, val : ScoreVals]

\* the explanation the reply carries: absent, a text, "" or null
ExplFields == {"absent", "text", "empty", "null"}

\* what openai_client.chat.completions.create comes to
\*   raises       the call raises
\*   no_choices   the completion holds no choices[0].message
\*   null_content the message content is null
\*   text         the content is not JSON
\*   json_other   the content is JSON but no object (a list, a string)
\*   json_object  the content is a JSON object
Completions ==
    [kind : {"raises", "no_choices", "null_content"},
     score : {[tag |-> "absent", val |-> 0]}, expl : {"absent"}]
    \cup
    [kind : {"text", "json_other"},
     score : {f \in ScoreFields : f.val >= 0}, expl : {"absent", "text"}]
    \cup
    [kind : {"json_object"}, score : ScoreFields, expl : ExplFields]

Analysis(score, explanation) ==
    [relevance_score |-> score, explanation |-> explanation]

\* the outer "except Exception" of the scorer
AnalysisError == Analysis(50, "Error during analysis")

\* result.get("explanation", "No explanation provided")
ExplanationOf(c) ==
    CASE c.expl = "absent" -> "No explanation provided"
      [] c.expl = "text" -> LLM_TEXT
      [] c.expl = "empty" -> ""
      [] OTHER -> NULL_TEXT

\* the "except Exception as parse_error" branch: the two re.search calls
Salvage(c) ==
    IF c.kind \in {"no_choices", "null_content"}
    THEN AnalysisError                  \* content unbound or None: re raises
    ELSE IF c.kind = "json_object"
    THEN \* float() rejected the field: the score pattern finds no digits
         Analysis(50, IF c.expl = "text" THEN LLM_TEXT ELSE "Analysis failed")
    ELSE IF c.score.tag = "junk"
    THEN AnalysisError                  \* float(score_match.group(1)) raises
    ELSE Analysis(IF c.score.tag = "number" THEN c.score.val ELSE 50,
                  IF c.expl = "text" THEN LLM_TEXT ELSE "Analysis failed")

\* a scorer whose prompt escapes the braces of the sample reply
PromptBuilds_escaped == TRUE

\* The user_prompt is an f-string whose text shows the reply format between
\* bare braces (lines 1192-1195): Python takes the braces as a replacement
\* field, "relevance_score" formatted with the rest as format specifier, and
\* str.__format__ raises ValueError. Building the prompt therefore raises
\* on every call, before the LLM is called.
PromptBuilds == FALSE

analyze_profile_relevance(c) ==
    IF ~PromptBuilds THEN AnalysisError
    ELSE IF c.kind = "raises" THEN AnalysisError
    ELSE IF c.kind = "json_object" /\ c.score.tag # "junk"
    THEN Analysis(IF c.score.tag = "number" THEN c.score.val ELSE 50,
                  ExplanationOf(c))
    ELSE Salvage(c)

InitScorer ==
    /\ analysis_pc = "call"
    /\ completion \in Completions
    /\ relevance_analysis = <<>>
    /\ ResolverIdle
    /\ ExtractorIdle
    /\ WesIdle
    /\ GatherIdle
    /\ ValidatorIdle
    /\ DirectIdle
    /\ RewriteIdle
    /\ NicheIdle
    /\ BatchIdle
    /\ OrderIdle
    /\ SeqIdle

Analyze ==
    /\ analysis_pc = "call"
    /\ analysis_pc' = "done"
    /\ relevance_analysis' = analyze_profile_relevance(completion)
    /\ UNCHANGED <<completion, resolver_vars, extractor_vars, wes_vars,
                   gather_vars, validator_vars, direct_vars,
                rewrite_vars, niche_vars, batch_vars,
                order_vars,
                seq_vars>>

NextScorer == Analyze

SpecScorer == InitScorer /\ [][NextScorer]_vars

\* C4: whatever the LLM call comes to (it raises, the reply is no JSON, the
\* JSON lacks the fields, the content is empty or null),
\* analyze_profile_relevance returns a result with a numeric score and a
\* non-empty explanation.
C4_ScorerNeverEmpty ==
    analysis_pc = "done" =>
        /\ relevance_analysis.relevance_score \in Int
        /\ relevance_analysis.explanation \notin {"", NULL_TEXT}

\* the scorer has returned although the LLM reply carries no usable text
C4_Witness ==
    /\ analysis_pc = "done"
    /\ completion.kind \in {"raises", "text", "null_content", "json_object"}
    /\ completion.expl # "text"
    /\ relevance_analysis = AnalysisError


\* ------------------------------------------------------------------------
\* score_usernames_relevance: the batch scorer
\* ------------------------------------------------------------------------
Min(a, b) == IF a < b THEN a ELSE b

Max(a, b) == IF a > b THEN a ELSE b

\* list[:n] of Python: a negative n counts from the end
Slice(list, n) ==
    IF n >= 0 THEN SubSeq(list, 1, Min(n, Len(list)))
    ELSE SubSeq(list, 1, Max(0, Len(list) + n))

\* list.sort(key=..., reverse=True), keys[i] being the key of list[i]:
\* descending and stable
SortDesc(list, keys) ==
    LET n == Len(list)
        Before(j, i) ==
            \/ keys[j] > keys[i]
            \/ (keys[j] = keys[i] /\ j < i)
        Rank(i) == Cardinality({j \in 1..n : Before(j, i)}) + 1
    IN [r \in 1..n |-> list[CHOOSE i \in 1..n : Rank(i) = r]]

\* the source tags of the candidates
DIRECT_SOURCE == "TikTok Direct Search"

WEB_SOURCE == "Tavily Web Intelligence"

\* search_for_tiktok_profiles tags a web candidate with the url of its hit
HIT_URL == "url of the hit"

\* TikTokUsername: search_relevance is None until the batch scorer ran
Candidate(h, src, rel) ==
    [username |-> h, source |-> src, search_relevance |-> rel]

\* x.search_relevance or 0
RelOr(c, default) ==
    IF IsNone(c.search_relevance) \/ c.search_relevance[1] = 0
    THEN default ELSE c.search_relevance[1]

RelKey(c) == RelOr(c, 0)

RelKeys(list) == [i \in 1..Len(list) |-> RelKey(list[i])]

SmallBatch == 3

LargeBatch == 20

PromptLimit == 15

HighDefault == 90

MediumDefault == 70

UnscoredDefault == 50

\* the batch reply: "fail" stands for a call that raises and for a content
\* json.loads rejects; "map" is a JSON object from list index to score
BatchIndex == 1..PromptLimit

ScoreCycle == <<30, 0, 150, -50>>

CycleMap(shift) ==
    [i \in BatchIndex |->
        [tag |-> "number", val |-> ScoreCycle[((i + shift) % 4) + 1]]]

ConstantMap(v) == [i \in BatchIndex |-> [tag |-> "number", val |-> v]]

\* a low score for the first candidate, 0 for the others
OneLowMap ==
    [i \in BatchIndex |->
        [tag |-> "number", val |-> IF i = 1 THEN 30 ELSE 0]]

\* only the first index is scored
PartialMap ==
    [i \in BatchIndex |->
        IF i = 1 THEN [tag |-> "number", val |-> 100]
        ELSE [tag |-> "absent", val |-> 0]]

\* the second score is something float() rejects
JunkMap ==
    [i \in BatchIndex |->
        IF i = 2 THEN [tag |-> "junk", val |-> 0]
        ELSE [tag |-> "number", val |-> 80]]

BatchReplies ==
    {[kind |-> "fail", scores |-> ConstantMap(0)]}
    \cup [kind : {"map"},
          scores : {CycleMap(k) : k \in 0..3}
                   \cup {ConstantMap(HighDefault), OneLowMap, PartialMap,
                         JunkMap}]

SetAll(list, v) ==
    [i \in 1..Len(list) |-> [list[i] EXCEPT !.search_relevance = Some(v)]]

\* float(scores[score_key])
MappedScore(f) == f.val

\* whether the batch makes the LLM call
NeedsLLM(list) == Len(list) > SmallBatch /\ Len(list) <= LargeBatch

\* a scorer that leaves the candidates beyond the prompt limit as they are
score_usernames_relevance_head(list, reply) ==
    IF Len(list) <= SmallBatch THEN SetAll(list, HighDefault)
    ELSE IF Len(list) > LargeBatch THEN SetAll(list, MediumDefault)
    ELSE IF reply.kind = "fail" THEN SetAll(list, UnscoredDefault)
    ELSE [i \in 1..Len(list) |->
            IF i > PromptLimit THEN list[i]
            ELSE [list[i] EXCEPT !.search_relevance =
                    Some(IF reply.scores[i].tag = "number"
                         THEN MappedScore(reply.scores[i])
                         ELSE UnscoredDefault)]]

score_usernames_relevance(list, reply) ==
    IF Len(list) <= SmallBatch THEN SetAll(list, HighDefault)
    ELSE IF Len(list) > LargeBatch THEN SetAll(list, MediumDefault)
    ELSE IF reply.kind = "fail" THEN SetAll(list, UnscoredDefault)
    ELSE IF \E i \in 1..Min(PromptLimit, Len(list)) :
                reply.scores[i].tag = "junk"
    THEN SetAll(list, UnscoredDefault)
    ELSE [i \in 1..Len(list) |->
            [list[i] EXCEPT !.search_relevance =
                Some(IF i <= PromptLimit /\ reply.scores[i].tag = "number"
                     THEN MappedScore(reply.scores[i])
                     ELSE UnscoredDefault)]]

MaxBatch == 22

\* a batch of n candidates that have no provisional relevance yet
BatchOf(n) ==
    [i \in 1..n |->
        Candidate(IF i % 2 = 1 THEN H.jo ELSE H.ab1, WEB_SOURCE, None)]

InitBatch ==
    /\ batch_pc = "call"
    /\ batch \in {BatchOf(n) : n \in 0..MaxBatch}
    /\ batch_reply = None
    /\ llm_calls = 0
    /\ scored_usernames = <<>>
    /\ ResolverIdle
    /\ ExtractorIdle
    /\ ScorerIdle
    /\ WesIdle
    /\ GatherIdle
    /\ ValidatorIdle
    /\ DirectIdle
    /\ RewriteIdle
    /\ NicheIdle
    /\ OrderIdle
    /\ SeqIdle

BatchFrame ==
    UNCHANGED <<batch, resolver_vars, extractor_vars, scorer_vars, wes_vars,
                gather_vars, validator_vars, direct_vars, rewrite_vars,
                niche_vars, order_vars,
                seq_vars>>

\* the two size tests: the small and the large batch return at once
BatchStart ==
    /\ batch_pc = "call"
    /\ IF NeedsLLM(batch)
       THEN /\ batch_pc' = "llm"
            /\ UNCHANGED scored_usernames
       ELSE /\ batch_pc' = "done"
            /\ scored_usernames' = score_usernames_relevance(batch,
                            [kind |-> "fail", scores |-> ConstantMap(0)])
    /\ UNCHANGED <<batch_reply, llm_calls>>
    /\ BatchFrame

\* the LLM call and what is made of its reply
BatchScore(reply) ==
    /\ batch_pc = "llm"
    /\ batch_pc' = "done"
    /\ batch_reply' = Some(reply)
    /\ llm_calls' = llm_calls + 1
    /\ scored_usernames' = score_usernames_relevance(batch, reply)
    /\ BatchFrame

NextBatch ==
    \/ BatchStart
    \/ \E reply \in BatchReplies : BatchScore(reply)

SpecBatch == InitBatch /\ [][NextBatch]_vars

\* the reply gives no usable mapping: the call failed, or one of the scores
\* that are read is no number
Unusable(reply, n) ==
    \/ reply.kind = "fail"
    \/ \E i \in 1..n : i <= PromptLimit /\ reply.scores[i].tag = "junk"

\* C22: after score_usernames_relevance every candidate of the batch has a
\* provisional relevance: HighDefault for a batch of at most SmallBatch and
\* MediumDefault for one of more than LargeBatch, both without an LLM call;
\* any other batch makes exactly one LLM call, takes the mapped score for
\* each of the first PromptLimit candidates and gives UnscoredDefault to
\* the unmapped ones and to those beyond, and to all when the call failed
\* or the reply cannot be read.
C22_BatchScored ==
    batch_pc = "done" =>
        /\ Len(scored_usernames) = Len(batch)
        /\ \A i \in 1..Len(scored_usernames) :
              /\ scored_usernames[i].username = batch[i].username
              /\ ~IsNone(scored_usernames[i].search_relevance)
        /\ Len(batch) <= SmallBatch =>
              /\ llm_calls = 0
              /\ \A i \in 1..Len(scored_usernames) :
                    scored_usernames[i].search_relevance = Some(HighDefault)
        /\ Len(batch) > LargeBatch =>
              /\ llm_calls = 0
              /\ \A i \in 1..Len(scored_usernames) :
                    scored_usernames[i].search_relevance = Some(MediumDefault)
        /\ (Len(batch) > SmallBatch /\ Len(batch) <= LargeBatch) =>
              /\ llm_calls = 1
              /\ \A i \in 1..Len(scored_usernames) :
                    scored_usernames[i].search_relevance =
                        IF /\ ~Unusable(batch_reply[1], Len(batch))
                           /\ i <= PromptLimit
                           /\ batch_reply[1].scores[i].tag = "number"
                        THEN Some(batch_reply[1].scores[i].val)
                        ELSE Some(UnscoredDefault)

C22_Witness ==
    /\ batch_pc = "done"
    /\ Len(batch) > PromptLimit
    /\ llm_calls = 1
    /\ scored_usernames[1].search_relevance = Some(100)
    /\ scored_usernames[2].search_relevance = Some(UnscoredDefault)
    /\ scored_usernames[Len(batch)].search_relevance = Some(UnscoredDefault)

\* ------------------------------------------------------------------------
\* web_enhanced_search: the orchestrator
\* ------------------------------------------------------------------------
\* what the criteria LLM call comes to
\*   raises        the call raises
\*   no_choices    the completion holds no choices[0].message
\*   unparsable    the content is null or no JSON: json.loads raises
\*   json_other    JSON, truthy, but no object: .get raises AttributeError
\*   json_falsy    JSON null, {}, [], 0 or ""
\*   criteria      an object with a required_criteria list
\*   no_criteria   an object without required_criteria
CriteriaCompletions ==
    {"raises", "no_choices", "unparsable", "json_other", "json_falsy",
     "criteria", "no_criteria"}

LLM_CRITERION == "must post about the topic"

FallbackCriteria(q) == <<"Relevant to: " \o q>>

\* one search hit: what the extractor is given
Hit(url, found) == [url |-> url, found |-> found]

HitPool ==
    {Hit(None, <<H.jo>>), Hit(None, <<H.jo, H.ab1>>),
     Hit(None, <<H.Jo, H.ab1>>), Hit(None, <<H.top>>)}

MaxHits == 2

\* perform_tavily_search: None, or the "results" list (empty when the key
\* is missing)
TavilyResults ==
    {None} \cup {Some(l) : l \in UNION {[1..n -> HitPool] : n \in 0..MaxHits}}

\* a loop that takes the handles of a hit as they were found
RECURSIVE Gather_unvalidated(_)
Gather_unvalidated(hits) ==
    IF hits = <<>> THEN <<>>
    ELSE [i \in 1..Len(hits[1].found) |->
            Candidate(hits[1].found[i], WEB_SOURCE, None)]
         \o Gather_unvalidated(Tail(hits))

\* the loop over tavily_results['results']
RECURSIVE Gather(_)
Gather(hits) ==
    IF hits = <<>> THEN <<>>
    ELSE LET extracted ==
                extract_tiktok_usernames(hits[1].url, hits[1].found)
         IN [i \in 1..Len(extracted) |->
                Candidate(extracted[i], WEB_SOURCE, None)]
            \o Gather(Tail(hits))

\* the profiles the orchestrator tells apart: it reads the follower count
\* (below 100 or not) and the bio (null, empty or not)
ProfileSamples ==
    {p \in RawProfile :
        /\ p.nickname = ABSENT /\ p.uid = ABSENT
        /\ p.signature # ABSENT /\ p.follower_count \in {50, 5000}}

\* what get_user_by_username(h) can return: nothing, the empty dict, the
\* placeholder, a record of endpoint 1 or 4, a record of endpoint 2 or 3
ResolverResults(h) ==
    {None, Some(Passthrough(NoProfile)), Some(MinimalUser(h))}
    \cup {Some(Passthrough(p)) : p \in ProfileSamples}
    \cup {Some(Normalise(p, h)) :
            p \in {q \in ProfileSamples :
                      q.signature = "a bio" /\ q.follower_count = 5000}}

\* "if user_data": None and the empty dict are falsy
Truthy(res) == ~IsNone(res) /\ res[1] # Passthrough(NoProfile)

Match(h, score, method) ==
    [username |-> h, relevance_score |-> score, discovery_method |-> method]

ScoreKeys(list) == [i \in 1..Len(list) |-> list[i].relevance_score]

GateFollowers == 100

GateRelevance == 80

\* the quality gate: TRUE when the profile is skipped
Skipped(res, cand) ==
    /\ \/ GetN(res[1].follower_count, 0) < GateFollowers
       \/ Get(res[1].signature, "") = ""
    /\ RelKey(cand) < GateRelevance

\* "not user_info['bio'].strip()" is evaluated only when the follower count
\* is at least 100, and raises AttributeError on a null bio
GateRaises(res) ==
    /\ GetN(res[1].follower_count, 0) >= GateFollowers
    /\ res[1].signature = NULL

\* WebEnhancedUserMatch(bio=...) rejects a bio that is no string
MatchRaises(res) == res[1].signature = NULL

\* what the gate read of an enriched profile, and whether the "continue" of
\* line 1374 dropped it, the scorer of line 1377 was called for it, or the
\* gate raised
Gated(res, cand) ==
    [follower_count |-> GetN(res[1].follower_count, 0),
     bio |-> Get(res[1].signature, ""),
     search_relevance |-> RelKey(cand),
     outcome |-> IF GateRaises(res) THEN "raised"
                 ELSE IF Skipped(res, cand) THEN "dropped"
                 ELSE "scored"]

MaxAnalysisCap == 15

max_analysis == Min(MaxAnalysisCap, max_results * 3)

WesFrame ==
    UNCHANGED <<resolver_vars, extractor_vars, scorer_vars, gather_vars,
                validator_vars, direct_vars,
                rewrite_vars, niche_vars, batch_vars,
                order_vars,
                seq_vars>>

\* lines 1436-1448 and 1542-1545: sort and cut the matches; with no match
\* but some candidates, start the degradation path
Finish(us, um, ac) ==
    LET cut == Slice(SortDesc(um, ScoreKeys(um)), max_results)
        top == Slice(SortDesc(us, RelKeys(us)), max_results)
    IN /\ user_matches' = um
       /\ analyzed_count' = ac
       /\ matches' = cut
       /\ IF cut = <<>> /\ us # <<>> /\ top # <<>>
          THEN /\ wes_pc' = "degrade"
               /\ top_usernames' = top
               /\ position' = 1
          ELSE /\ wes_pc' = "done"
               /\ top_usernames' = <<>>
               /\ UNCHANGED position

\* the head of "for username_obj in usernames" at candidate i
LoopHead(us, i, ac, sc, um) ==
    IF i <= Len(us) /\ ~(ac >= max_analysis \/ sc >= max_results)
    THEN /\ wes_pc' = "loop"
         /\ position' = i
         /\ analyzed_count' = ac
         /\ user_matches' = um
         /\ UNCHANGED <<matches, top_usernames>>
    ELSE Finish(us, um, ac)

\* Step 1: the criteria LLM call
WesCriteria(c) ==
    /\ wes_pc = "criteria"
    /\ criteria_completion' = c
    /\ IF c \in {"raises", "no_choices"}
       THEN /\ wes_pc' = "failed"       \* outside the inner try: HTTP 500
            /\ UNCHANGED required_criteria
       ELSE /\ wes_pc' = "search"
            /\ required_criteria' =
                  CASE c \in {"unparsable", "json_other"} ->
                          FallbackCriteria(query)
                    [] c = "criteria" -> <<LLM_CRITERION>>
                    [] OTHER -> <<>>
    /\ UNCHANGED <<query, max_results, min_relevance_score, usernames,
                   position, analyzed_count, successful_count, user_matches,
                   top_usernames, matches, tavily_results, resolver_calls,
                   gate>>
    /\ WesFrame

\* Steps 2 and 3 up to the next await: the web search, the extraction and,
\* for a batch that needs no LLM call, the batch scores and the sort
WesSearch(tav) ==
    /\ wes_pc = "search"
    /\ IF IsNone(tav) \/ tav[1] = <<>>
       THEN /\ wes_pc' = "done"         \* early exit with no matches
            /\ UNCHANGED <<usernames, position, analyzed_count,
                           successful_count, user_matches, top_usernames,
                           matches>>
       ELSE LET found == Gather(tav[1]) IN
            IF NeedsLLM(found)
            THEN /\ wes_pc' = "batch"
                 /\ usernames' = found
                 /\ UNCHANGED <<position, analyzed_count, successful_count,
                                user_matches, top_usernames, matches>>
            ELSE LET scored ==
                        score_usernames_relevance(
                            found, [kind |-> "fail",
                                    scores |-> ConstantMap(0)])
                     sorted == SortDesc(scored, RelKeys(scored))
                 IN /\ usernames' = sorted
                    /\ LoopHead(sorted, 1, 0, 0, <<>>)
                    /\ UNCHANGED successful_count
    /\ tavily_results' = tav
    /\ UNCHANGED <<query, max_results, min_relevance_score,
                   criteria_completion, required_criteria, resolver_calls,
                   gate>>
    /\ WesFrame

\* the LLM call of score_usernames_relevance, then the sort
WesBatch(reply) ==
    /\ wes_pc = "batch"
    /\ LET scored == score_usernames_relevance(usernames, reply)
           sorted == SortDesc(scored, RelKeys(scored))
       IN /\ usernames' = sorted
          /\ LoopHead(sorted, 1, 0, 0, <<>>)
    /\ UNCHANGED <<query, max_results, min_relevance_score,
                   criteria_completion, required_criteria, successful_count,
                   tavily_results, resolver_calls, gate>>
    /\ WesFrame

\* one candidate of the main loop: the resolver call, the quality gate, the
\* profile scorer and the threshold
WesEnrich(res) ==
    /\ wes_pc = "loop"
    /\ LET cand == usernames[position]
           analysis == analyze_profile_relevance(
                           [kind |-> "raises",
                            score |-> [tag |-> "absent", val |-> 0],
                            expl |-> "absent"])
       IN IF ~Truthy(res)
          THEN /\ LoopHead(usernames, position + 1, analyzed_count,
                           successful_count, user_matches)
               /\ UNCHANGED successful_count
          ELSE IF \/ GateRaises(res)
                  \/ /\ ~Skipped(res, cand)
                     /\ analysis.relevance_score >= min_relevance_score
                     /\ MatchRaises(res)
          THEN /\ wes_pc' = "failed"    \* the outer except: HTTP 500
               /\ UNCHANGED <<position, analyzed_count, successful_count,
                              user_matches, top_usernames, matches>>
          ELSE IF Skipped(res, cand)
          THEN /\ LoopHead(usernames, position + 1, analyzed_count + 1,
                           successful_count, user_matches)
               /\ UNCHANGED successful_count
          ELSE IF analysis.relevance_score >= min_relevance_score
          THEN /\ LoopHead(usernames, position + 1, analyzed_count + 1,
                           successful_count + 1,
                           Append(user_matches,
                                  Match(cand.username,
                                        analysis.relevance_score,
                                        "Tavily Web Search")))
               /\ successful_count' = successful_count + 1
          ELSE /\ LoopHead(usernames, position + 1, analyzed_count + 1,
                           successful_count, user_matches)
               /\ UNCHANGED successful_count
    /\ resolver_calls' = resolver_calls + 1
    /\ gate' = IF Truthy(res) THEN Some(Gated(res, usernames[position]))
               ELSE None
    /\ UNCHANGED <<query, max_results, min_relevance_score,
                   criteria_completion, required_criteria, usernames,
                   tavily_results>>
    /\ WesFrame

\* one candidate of the degradation path
WesDegrade(res) ==
    /\ wes_pc = "degrade"
    /\ LET cand == top_usernames[position]
           m == IF Truthy(res)
                THEN Match(cand.username, RelOr(cand, 80),
                           IF GetN(res[1].follower_count, 0) > 0
                           THEN "Tavily Web Search"
                           ELSE "Tavily Web Search (Limited Data)")
                ELSE Match(cand.username, RelOr(cand, 70),
                           "Tavily Web Search (Direct Match)")
       IN IF Truthy(res) /\ MatchRaises(res)
          THEN /\ wes_pc' = "failed"    \* the outer except: HTTP 500
               /\ UNCHANGED <<position, analyzed_count, matches>>
          ELSE /\ matches' = Append(matches, m)
               /\ IF position < Len(top_usernames)
                  THEN /\ position' = position + 1
                       /\ UNCHANGED <<wes_pc, analyzed_count>>
                  ELSE /\ wes_pc' = "done"
                       /\ analyzed_count' = Len(matches) + 1
                       /\ UNCHANGED position
    /\ resolver_calls' = resolver_calls + 1
    /\ UNCHANGED <<query, max_results, min_relevance_score,
                   criteria_completion, required_criteria, usernames,
                   successful_count, user_matches, top_usernames,
                   tavily_results, gate>>
    /\ WesFrame

\* username_obj.username of the candidate the loop is at
HandleAt(list) ==
    IF position \in 1..Len(list) THEN list[position].username ELSE <<>>

RequestedMax == {-1, 0, 1, 2}

RequestedMinScore == {50, 60}

InitWes ==
    /\ wes_pc = "criteria"
    /\ query = "fashion influencer"
    /\ max_results \in RequestedMax
    /\ min_relevance_score \in RequestedMinScore
    /\ criteria_completion = ""
    /\ required_criteria = <<>>
    /\ usernames = <<>>
    /\ position = 0
    /\ analyzed_count = 0
    /\ successful_count = 0
    /\ user_matches = <<>>
    /\ top_usernames = <<>>
    /\ matches = <<>>
    /\ tavily_results = None
    /\ resolver_calls = 0
    /\ gate = None
    /\ ResolverIdle
    /\ ExtractorIdle
    /\ ScorerIdle
    /\ GatherIdle
    /\ ValidatorIdle
    /\ DirectIdle
    /\ RewriteIdle
    /\ NicheIdle
    /\ BatchIdle
    /\ OrderIdle
    /\ SeqIdle

NextWes ==
    \/ \E c \in CriteriaCompletions : WesCriteria(c)
    \/ \E tav \in TavilyResults : WesSearch(tav)
    \/ \E reply \in BatchReplies : WesBatch(reply)
    \/ \E res \in ResolverResults(HandleAt(usernames)) : WesEnrich(res)
    \/ \E res \in ResolverResults(HandleAt(top_usernames)) : WesDegrade(res)

SpecWes == InitWes /\ [][NextWes]_vars

\* C3: every relevance_score of a returned match lies in [0, 1], whatever
\* the LLM answered, on the scored path and on the degradation path (stated
\* for the requests that ask for at least one result).
C3_ScoresInRange ==
    (wes_pc = "done" /\ max_results >= 1) =>
        \A i \in 1..Len(matches) :
            /\ matches[i].relevance_score >= 0
            /\ matches[i].relevance_score <= 100

\* C23: the quality gate drops an enriched profile before scoring only when
\* its follower count is below 100 and its bio is empty and its provisional
\* relevance is below 0.8: a profile with a non-empty bio, or with at least
\* 100 followers, or with a provisional relevance of at least 0.8, is not
\* dropped.
C23_GateDropsOnlyNoise ==
    (~IsNone(gate) /\ gate[1].outcome = "dropped") =>
        /\ gate[1].follower_count < GateFollowers
        /\ gate[1].bio = ""
        /\ gate[1].search_relevance < GateRelevance

\* C24: candidates are enriched in non-increasing order of provisional
\* relevance, and the resolver calls of one request, those of the
\* degradation path included, never exceed N = min(15, max_results * 3)
\* (stated for the requests that ask for at least one result).
C24_EnrichmentBounded ==
    (wes_pc \in {"loop", "degrade", "done"} /\ max_results >= 1) =>
        /\ \A i, j \in 1..Len(usernames) :
              i < j => RelKey(usernames[i]) >= RelKey(usernames[j])
        /\ \A i, j \in 1..Len(top_usernames) :
              i < j => RelKey(top_usernames[i]) >= RelKey(top_usernames[j])
        /\ resolver_calls <= max_analysis

\* C5: the returned match list never has more entries than the requested
\* max_results (none when the requested maximum is 0 or negative).
C5_AtMostMax ==
    wes_pc = "done" => Len(matches) <= Max(0, max_results)

\* C6: the returned match list is sorted non-increasingly by
\* relevance_score, on the scored path and on the degradation path (stated
\* for the requests that ask for at least one result).
C6_SortedByScore ==
    (wes_pc = "done" /\ max_results >= 1) =>
        \A i, j \in 1..Len(matches) :
            i < j => matches[i].relevance_score >= matches[j].relevance_score

\* C9: the gathered candidate list holds each identifier at most once
\* ignoring case, so no identifier is enriched or returned twice.
C9_CandidatesUnique ==
    /\ \A i, j \in 1..Len(usernames) :
          i < j => Lower(usernames[i].username) # Lower(usernames[j].username)
    /\ \A i, j \in 1..Len(matches) :
          i < j => Lower(matches[i].username) # Lower(matches[j].username)

\* C10: when the criteria LLM call raises or its reply cannot be parsed, the
\* request goes on with the one criterion "Relevant to: <query>" and ends
\* with a response, not with an error.
C10_CriteriaNeverFail ==
    criteria_completion \in {"raises", "no_choices", "unparsable"} =>
        /\ wes_pc # "failed"
        /\ required_criteria = FallbackCriteria(query)

\* C11: when at least one candidate was extracted and max_results is at
\* least 1, the request ends with a response whose match list is not empty.
C11_DegradationNonEmpty ==
    (wes_pc \in {"done", "failed"} /\ usernames # <<>> /\ max_results >= 1)
        => (wes_pc = "done" /\ matches # <<>>)

\* ------------------------------------------------------------------------
\* Candidate gathering: search_directly_on_tiktok, search_for_tiktok_profiles
\* and the first part of search_users
\* ------------------------------------------------------------------------
\* one entry of the provider's user_list
DirectEntry(info, id, verified, followers) ==
    [has_info |-> info, unique_id |-> id, is_verified |-> verified,
     follower_count |-> followers]

\* the entries the provider answers with: a handle, a handle that differs
\* in case only, a stop word, an empty unique_id, an entry without user_info
DirectPool ==
    {DirectEntry(TRUE, H.jo, FALSE, 0),
     DirectEntry(TRUE, H.Jo, TRUE, 200000),
     DirectEntry(TRUE, H.ab1, TRUE, 0),
     DirectEntry(TRUE, H.top, FALSE, 50000),
     DirectEntry(TRUE, <<>>, FALSE, 0),
     DirectEntry(FALSE, H.jo, FALSE, 0)}

MaxDirect == 2

\* what the search-users request comes to: None for a failed request, a
\* status other than 200, an undecodable body or a body without user_list;
\* else the user_list
DirectReplies ==
    {None}
    \cup {Some(l) : l \in UNION {[1..n -> DirectPool] : n \in 0..MaxDirect}}

\* a follower share that is full at 1,000,000 followers
relevance_per_million(u) ==
    Min(1000000, 500000 + (IF u.is_verified THEN 300000 ELSE 0)
                        + Min(200000, u.follower_count \div 5))

\* min(1.0, 0.5 + (0.3 if is_verified else 0) + min(0.2, followers/1000000))
\* in millionths
relevance(u) ==
    Min(1000000, 500000 + (IF u.is_verified THEN 300000 ELSE 0)
                        + Min(200000, u.follower_count))

\* the same in hundredths; the follower counts of DirectPool are multiples
\* of 10000, on which the division is exact
DirectRelevance(u) == relevance(u) \div 10000

RECURSIVE DirectCandidates(_)
DirectCandidates(list) ==
    IF list = <<>> THEN <<>>
    ELSE LET u == Head(list)
         IN (IF u.has_info /\ u.unique_id # <<>>
             THEN <<Candidate(u.unique_id, DIRECT_SOURCE,
                              Some(DirectRelevance(u)))>>
             ELSE <<>>)
            \o DirectCandidates(Tail(list))

search_directly_on_tiktok(reply, max) ==
    IF IsNone(reply) THEN <<>>
    ELSE Slice(DirectCandidates(reply[1]), max)

\* the follower counts around the point where the follower share is full
FollowerSamples == {0, 1, 199999, 200000, 200001, 1000000}

RelevancePool ==
    {DirectEntry(TRUE, H.jo, v, f) : v \in BOOLEAN, f \in FollowerSamples}
    \cup {DirectEntry(FALSE, H.jo, FALSE, 0)}

\* "if 'user_info' in user" and "if username"
Listed(u) == u.has_info /\ u.unique_id # <<>>

InitDirect ==
    /\ direct_pc = "call"
    /\ direct_users \in UNION {[1..n -> RelevancePool] : n \in 0..MaxDirect}
    /\ relevances = <<>>
    /\ ResolverIdle
    /\ ExtractorIdle
    /\ ScorerIdle
    /\ WesIdle
    /\ GatherIdle
    /\ ValidatorIdle
    /\ RewriteIdle
    /\ NicheIdle
    /\ BatchIdle
    /\ OrderIdle
    /\ SeqIdle

\* the loop over the users of the provider's answer
DirectSearch ==
    /\ direct_pc = "call"
    /\ direct_pc' = "done"
    /\ relevances' =
          LET listed == SelectSeq(direct_users, Listed)
          IN [i \in 1..Len(listed) |-> relevance(listed[i])]
    /\ UNCHANGED <<direct_users, resolver_vars, extractor_vars, scorer_vars,
                   wes_vars, gather_vars, validator_vars,
                rewrite_vars, niche_vars, batch_vars,
                order_vars,
                seq_vars>>

NextDirect == DirectSearch

SpecDirect == InitDirect /\ [][NextDirect]_vars

\* the relevance at which a profile with or without a badge stops rising
Ceiling(verified) == IF verified THEN 1000000 ELSE 700000

\* C20: for every listed user the relevance is min(1.0, 0.5 + 0.3 for a
\* verified account + min(0.2, followers / 1,000,000)): it lies between 0.5
\* and 1.0, it does not fall when the followers rise, it still rises below
\* 200,000 followers and it is the same from 200,000 followers on.
C20_DirectRelevance ==
    direct_pc = "done" =>
        LET listed == SelectSeq(direct_users, Listed) IN
        /\ Len(relevances) = Len(listed)
        /\ \A i \in 1..Len(listed) :
              /\ relevances[i] >= 500000
              /\ relevances[i] <= 1000000
              /\ listed[i].follower_count >= 200000 =>
                    relevances[i] = Ceiling(listed[i].is_verified)
              /\ listed[i].follower_count < 200000 =>
                    relevances[i] = Ceiling(listed[i].is_verified) - 200000
                                        + listed[i].follower_count
        /\ \A i, j \in 1..Len(listed) :
              (/\ listed[i].is_verified = listed[j].is_verified
               /\ listed[i].follower_count <= listed[j].follower_count)
                  => relevances[i] <= relevances[j]

C20_Witness ==
    /\ direct_pc = "done"
    /\ Len(relevances) = 2
    /\ direct_users[1].follower_count = 200000
    /\ direct_users[2].follower_count = 1000000
    /\ direct_users[1].is_verified = direct_users[2].is_verified
    /\ relevances[1] = relevances[2]

\* "if username not in username_set": the set holds the handles as written
RECURSIVE MergeExact(_, _)
MergeExact(acc, list) ==
    IF list = <<>> THEN acc
    ELSE LET c == Head(list)
         IN MergeExact(IF \E i \in 1..Len(acc) : acc[i].username = c.username
                       THEN acc ELSE Append(acc, c),
                       Tail(list))

\* a merge that forgets to append
MergeLower_nomerge(acc, list, cap) == acc

\* "if username.lower() not in seen_usernames and len(all_usernames) < count"
RECURSIVE MergeLower(_, _, _)
MergeLower(acc, list, cap) ==
    IF list = <<>> THEN acc
    ELSE LET c == Head(list)
         IN MergeLower(IF /\ \A i \in 1..Len(acc) :
                                Lower(acc[i].username) # Lower(c.username)
                          /\ Len(acc) < cap
                       THEN Append(acc, c) ELSE acc,
                       Tail(list), cap)

\* a hit that brings two more handles, so that a run gathers more than
\* SmallBatch unscored candidates
GatherHitPool == HitPool \cup {Hit(None, <<H.JO, H.max>>)}

GatherTavilyResults ==
    {None}
    \cup {Some(l) : l \in UNION {[1..n -> GatherHitPool] : n \in 0..MaxHits}}

\* the loop over tavily_results['results'] in search_for_tiktok_profiles,
\* with its break once max_results candidates are held
RECURSIVE SfpGather(_, _, _)
SfpGather(acc, hits, max) ==
    IF hits = <<>> THEN acc
    ELSE LET extracted ==
                extract_tiktok_usernames(hits[1].url, hits[1].found)
             more == MergeExact(acc,
                        [i \in 1..Len(extracted) |->
                            Candidate(extracted[i], HIT_URL, None)])
         IN IF Len(more) >= max THEN more
            ELSE SfpGather(more, Tail(hits), max)

usernames_to_score(list) ==
    SelectSeq(list, LAMBDA c : IsNone(c.search_relevance))

\* "Update scores in original list": the k-th unscored candidate takes the
\* k-th score
UpdateScores(list, scored) ==
    [i \in 1..Len(list) |->
        IF IsNone(list[i].search_relevance)
        THEN [list[i] EXCEPT !.search_relevance =
                scored[Cardinality({j \in 1..i :
                    IsNone(list[j].search_relevance)})].search_relevance]
        ELSE list[i]]

RequestedCount == {-1, 1, 2, 3}

GatherFrame ==
    UNCHANGED <<resolver_vars, extractor_vars, scorer_vars, wes_vars,
                validator_vars, direct_vars,
                rewrite_vars, niche_vars, batch_vars,
                order_vars,
                seq_vars>>

\* the sort and the cut that end search_for_tiktok_profiles
SfpReturn(list) ==
    /\ gather_pc' = "done"
    /\ all_usernames' = SortDesc(list, RelKeys(list))
    /\ final_results' = Slice(SortDesc(list, RelKeys(list)), count)

\* the scoring block: the LLM is asked only for a batch of the middle size
SfpScoring(list) ==
    IF NeedsLLM(usernames_to_score(list))
    THEN /\ gather_pc' = "sfp_score"
         /\ all_usernames' = list
         /\ UNCHANGED final_results
    ELSE SfpReturn(
            IF usernames_to_score(list) = <<>> THEN list
            ELSE UpdateScores(list,
                    score_usernames_relevance(usernames_to_score(list),
                        [kind |-> "fail", scores |-> ConstantMap(0)])))

\* strategy 1 of search_for_tiktok_profiles
SfpDirect(reply) ==
    /\ gather_pc = "sfp_direct"
    /\ LET direct_results == search_directly_on_tiktok(reply, count)
           merged == MergeExact(<<>>, direct_results)
       IN IF Len(merged) < count
          THEN /\ gather_pc' = "sfp_web"
               /\ all_usernames' = merged
               /\ UNCHANGED final_results
          ELSE SfpScoring(merged)
    /\ direct_failed' = IsNone(reply)
    /\ tiktok_usernames' = search_directly_on_tiktok(reply, count)
    /\ UNCHANGED <<count, web_failed, extracted_usernames, su_position,
                   su_users, enrich_calls>>
    /\ GatherFrame

\* strategy 2 of search_for_tiktok_profiles
SfpWeb(tav) ==
    /\ gather_pc = "sfp_web"
    /\ SfpScoring(IF IsNone(tav) THEN all_usernames
                  ELSE SfpGather(all_usernames, tav[1], count))
    /\ web_failed' = IsNone(tav)
    /\ extracted_usernames' = IF IsNone(tav) THEN <<>> ELSE Gather(tav[1])
    /\ UNCHANGED <<count, direct_failed, tiktok_usernames, su_position,
                   su_users, enrich_calls>>
    /\ GatherFrame

\* the LLM call of score_usernames_relevance
SfpScore(reply) ==
    /\ gather_pc = "sfp_score"
    /\ SfpReturn(UpdateScores(all_usernames,
            score_usernames_relevance(usernames_to_score(all_usernames),
                                      reply)))
    /\ UNCHANGED <<count, web_failed, direct_failed, extracted_usernames,
                   tiktok_usernames, su_position, su_users, enrich_calls>>
    /\ GatherFrame

\* search_users: the web search and the extraction from each hit
SuWeb(tav) ==
    /\ gather_pc = "su_web"
    /\ gather_pc' = "su_direct"
    /\ web_failed' = IsNone(tav)
    /\ extracted_usernames' = IF IsNone(tav) THEN <<>> ELSE Gather(tav[1])
    /\ UNCHANGED <<count, direct_failed, tiktok_usernames, all_usernames,
                   final_results, su_position, su_users, enrich_calls>>
    /\ GatherFrame

\* the user object search_users builds from a resolver record
User(h, rec) ==
    [username |-> h,
     bio |-> Get(rec.signature, ""),
     follower_count |-> GetN(rec.follower_count, 0)]

FollowerKeys(list) == [i \in 1..Len(list) |-> list[i].follower_count]

\* the follower-count samples of the enriched users
SuProfileSamples ==
    {p \in RawProfile :
        /\ p.nickname = ABSENT /\ p.uid = ABSENT
        /\ p.signature = "a bio" /\ p.follower_count \in {50, 5000}}

\* what get_user_by_username(h) returns to search_users
SuResolverResults(h) ==
    {None, Some(MinimalUser(h)),
     Some(Normalise(Entry(TRUE, H.eve, "Nick", ABSENT_N), h))}
    \cup {Some(Passthrough(p)) : p \in SuProfileSamples}

\* the end of search_users for a request without criteria and without deep
\* analysis whose query names no location: the default sort by followers
\* (lines 1820-1822), then the sort of lines 1861-1863
SuReturn(list) ==
    /\ gather_pc' = "su_done"
    /\ su_users' = SortDesc(list, FollowerKeys(list))

\* the head of "for username_obj in all_usernames[:request.count]"
SuLoopHead(list, i, us) ==
    IF i <= Len(Slice(list, count))
    THEN /\ gather_pc' = "su_enrich"
         /\ su_position' = i
         /\ su_users' = us
    ELSE /\ SuReturn(us)
         /\ UNCHANGED su_position

\* search_users: the direct search, the merge of both lists and the early
\* return when nothing was found
SuDirect(reply) ==
    /\ gather_pc = "su_direct"
    /\ LET direct == search_directly_on_tiktok(reply, count)
           merged == MergeLower(MergeLower(<<>>, extracted_usernames, count),
                                direct, count)
       IN /\ tiktok_usernames' = direct
          /\ all_usernames' = merged
          /\ IF merged = <<>>
             THEN /\ gather_pc' = "su_done"
                  /\ UNCHANGED <<su_position, su_users>>
             ELSE SuLoopHead(merged, 1, <<>>)
    /\ direct_failed' = IsNone(reply)
    /\ UNCHANGED <<count, web_failed, extracted_usernames, final_results,
                   enrich_calls>>
    /\ GatherFrame

\* search_users: one candidate of the enrichment loop
SuEnrich(res) ==
    /\ gather_pc = "su_enrich"
    /\ enrich_calls' = enrich_calls + 1
    /\ SuLoopHead(all_usernames, su_position + 1,
                  IF Truthy(res)
                  THEN Append(su_users,
                              User(all_usernames[su_position].username,
                                   res[1]))
                  ELSE su_users)
    /\ UNCHANGED <<count, web_failed, direct_failed, extracted_usernames,
                   tiktok_usernames, all_usernames, final_results>>
    /\ GatherFrame

\* username_obj.username of the candidate the enrichment loop is at
SuHandleAt ==
    IF su_position \in 1..Len(all_usernames)
    THEN all_usernames[su_position].username ELSE <<>>

InitGather ==
    /\ gather_pc \in {"sfp_direct", "su_web"}
    /\ count \in RequestedCount
    /\ web_failed = FALSE
    /\ direct_failed = FALSE
    /\ extracted_usernames = <<>>
    /\ tiktok_usernames = <<>>
    /\ all_usernames = <<>>
    /\ final_results = <<>>
    /\ su_position = 0
    /\ su_users = <<>>
    /\ enrich_calls = 0
    /\ ResolverIdle
    /\ ExtractorIdle
    /\ ScorerIdle
    /\ WesIdle
    /\ ValidatorIdle
    /\ DirectIdle
    /\ RewriteIdle
    /\ NicheIdle
    /\ BatchIdle
    /\ OrderIdle
    /\ SeqIdle

NextGather ==
    \/ \E reply \in DirectReplies : SfpDirect(reply)
    \/ \E tav \in GatherTavilyResults : SfpWeb(tav)
    \/ \E reply \in BatchReplies : SfpScore(reply)
    \/ \E tav \in GatherTavilyResults : SuWeb(tav)
    \/ \E reply \in DirectReplies : SuDirect(reply)
    \/ \E res \in SuResolverResults(SuHandleAt) : SuEnrich(res)

SpecGather == InitGather /\ [][NextGather]_vars

\* C8: every candidate that enters aggregation, from the web search or from
\* the direct search, satisfies is_valid_tiktok_username.
C8_CandidatesValid ==
    \A i \in 1..Len(all_usernames) :
        is_valid_tiktok_username(all_usernames[i].username)

\* ------------------------------------------------------------------------
\* One request to either search endpoint: web_enhanced_search or the
\* gathering functions
\* ------------------------------------------------------------------------
\* every handle of list is among the gathered candidates, letter case
\* aside, unless the gathering stopped because the requested number of
\* candidates was reached
Covers(gathered, list) ==
    \A i \in 1..Len(list) :
        \/ Len(gathered) >= count
        \/ \E j \in 1..Len(gathered) :
                Lower(gathered[j].username) = Lower(list[i].username)

Gathered == gather_pc \in {"sfp_score", "done", "su_enrich", "su_done"}

C13_WitnessWebFailed ==
    /\ gather_pc = "done"
    /\ web_failed
    /\ ~direct_failed
    /\ tiktok_usernames # <<>>
    /\ Len(final_results) = Len(tiktok_usernames)

\* ------------------------------------------------------------------------
\* perform_tavily_search: the query rewrite
\* ------------------------------------------------------------------------
\* the words the queries are made of
Q ==
    [in |-> <<"i", "n">>,
     from |-> <<"f", "r", "o", "m">>,
     influencer |-> <<"i", "n", "f", "l", "u", "e", "n", "c", "e", "r">>,
     creator |-> <<"c", "r", "e", "a", "t", "o", "r">>,
     pet |-> <<"P", "e", "t">>,
     rome |-> <<"r", "o", "m", "e">>,
     security |-> <<"s", "e", "c", "u", "r", "i", "t", "y">>,
     privacy |-> <<"p", "r", "i", "v", "a", "c", "y">>]

QueryWords ==
    {Q.in, Q.from, Q.influencer, Q.pet, Q.rome, Q.security, Q.privacy}

MaxQueryLen == 3

\* a query is its words, one space between two of them
Queries == UNION {[1..n -> QueryWords] : n \in 0..MaxQueryLen}

RECURSIVE Join(_)
Join(words) ==
    IF words = <<>> THEN <<>>
    ELSE IF Len(words) = 1 THEN words[1]
    ELSE words[1] \o <<" ">> \o Join(Tail(words))

\* "t in s" on strings
HasSub(s, t) ==
    \E i \in 0..(Len(s) - Len(t)) : SubSeq(s, i + 1, i + Len(t)) = t

\* str.replace(t, "")
RECURSIVE RemoveAll(_, _)
RemoveAll(s, t) ==
    IF Len(s) < Len(t) THEN s
    ELSE IF SubSeq(s, 1, Len(t)) = t
    THEN RemoveAll(SubSeq(s, Len(t) + 1, Len(s)), t)
    ELSE <<s[1]>> \o RemoveAll(Tail(s), t)

\* the words that \sfrom\s|\sin\s matches from position i on: a word with
\* a space on both sides
Separators(words, i) ==
    {k \in i..(Len(words) - 1) : k > 1 /\ words[k] \in {Q.from, Q.in}}

FirstOf(set) == CHOOSE k \in set : \A j \in set : k <= j

\* lines 138-165: the enhanced query, as the phrasing that was chosen and
\* the two texts put into it
EnhancedQuery(q) ==
    LET low == [i \in 1..Len(q) |-> Lower(q[i])]
        text == Join(low)
    IN IF HasSub(text, Q.security) \/ HasSub(text, Q.privacy)
       THEN [phrasing |-> "experts",
             first |-> IF HasSub(text, Q.security) THEN "cybersecurity"
                       ELSE "",
             second |-> IF HasSub(text, Q.privacy) THEN "data privacy"
                        ELSE ""]
       ELSE IF HasSub(text, Q.from) \/ HasSub(text, Q.in)
       THEN IF Separators(low, 1) # {}
            THEN LET k == FirstOf(Separators(low, 1))
                     rest == Separators(low, k + 2)
                     last == IF rest = {} THEN Len(low)
                             ELSE FirstOf(rest) - 1
                 IN [phrasing |-> "location",
                     first |-> Join(SubSeq(low, 1, k - 1)),
                     second |-> Join(SubSeq(low, k + 1, last))]
            ELSE [phrasing |-> "creators focused on",
                  first |-> Join(q), second |-> ""]
       ELSE [phrasing |-> "generic",
             first |-> Strip(RemoveAll(RemoveAll(text, Q.influencer),
                                       Q.creator), Whitespace),
             second |-> ""]

InitRewrite ==
    /\ rewrite_pc = "call"
    /\ search_query \in Queries
    /\ enhanced_query = <<>>
    /\ ResolverIdle
    /\ ExtractorIdle
    /\ ScorerIdle
    /\ WesIdle
    /\ GatherIdle
    /\ ValidatorIdle
    /\ DirectIdle
    /\ NicheIdle
    /\ BatchIdle
    /\ OrderIdle
    /\ SeqIdle

Rewrite ==
    /\ rewrite_pc = "call"
    /\ rewrite_pc' = "done"
    /\ enhanced_query' = EnhancedQuery(search_query)
    /\ UNCHANGED <<search_query, resolver_vars, extractor_vars, scorer_vars,
                   wes_vars, gather_vars, validator_vars, direct_vars,
                   niche_vars, batch_vars,
                order_vars,
                seq_vars>>

NextRewrite == Rewrite

SpecRewrite == InitRewrite /\ [][NextRewrite]_vars

\* the query names word w, letter case aside
HasWord(q, w) == \E i \in 1..Len(q) : Lower(q[i]) = w

\* one of the query's words holds the text t
Mentions(q, t) == \E i \in 1..Len(q) : HasSub(Lower(q[i]), t)

\* C21: the rewrite rules apply in priority order: a query that mentions
\* security or privacy gets the experts phrasing, also when it holds
\* "from" or "in"; the location phrasing is chosen only for a query that
\* holds the word "from" or "in"; every other query, such as one whose only
\* "in" stands inside a word, gets the generic phrasing.
C21_RewritePriority ==
    rewrite_pc = "done" =>
        LET niche == \/ Mentions(search_query, Q.security)
                     \/ Mentions(search_query, Q.privacy)
            preposition == \/ HasWord(search_query, Q.from)
                           \/ HasWord(search_query, Q.in)
        IN /\ niche => enhanced_query.phrasing = "experts"
           /\ (~niche /\ enhanced_query.phrasing = "location")
                 => preposition
           /\ (~niche /\ ~preposition)
                 => enhanced_query.phrasing = "generic"

\* ------------------------------------------------------------------------
\* security_privacy_helpers.py: the niche detector and the niche score

\* the texts the users are built from, as sequences of characters
T ==
    [joe |-> <<"j", "o", "e">>,
     privacy_joe |-> <<"p", "r", "i", "v", "a", "c", "y", "_", "j", "o",
       "e">>,
     cybersecurity_joe |-> <<"c", "y", "b", "e", "r", "s", "e", "c", "u",
       "r", "i", "t", "y", "_", "j", "o", "e">>,
     rome_joe |-> <<"r", "o", "m", "e", "_", "j", "o", "e">>,
     Joe |-> <<"J", "o", "e">>,
     Cyber_Joe |-> <<"C", "y", "b", "e", "r", " ", "J", "o", "e">>,
     Joe_Rome |-> <<"J", "o", "e", " ", "R", "o", "m", "e">>,
     encryption |-> <<"e", "n", "c", "r", "y", "p", "t", "i", "o", "n">>,
     vpn |-> <<"I", " ", "l", "i", "k", "e", " ", "v", "p", "n">>,
     cissp |-> <<"C", "I", "S", "S", "P">>,
     red_team |-> <<"r", "e", "d", " ", "t", "e", "a", "m">>,
     cats |-> <<"c", "a", "t", "s">>,
     in_rome |-> <<"c", "a", "t", "s", " ", "i", "n", " ", "R", "o", "m",
       "e">>,
     vpn_tips |-> <<"v", "p", "n", " ", "t", "i", "p", "s">>,
     privacy |-> <<"p", "r", "i", "v", "a", "c", "y">>,
     security |-> <<"s", "e", "c", "u", "r", "i", "t", "y">>,
     cyber |-> <<"c", "y", "b", "e", "r">>,
     infosec |-> <<"i", "n", "f", "o", "s", "e", "c">>,
     malware |-> <<"m", "a", "l", "w", "a", "r", "e">>,
     rome |-> <<"r", "o", "m", "e">>]

\* lines 13-23: the list, in which "encryption" stands twice
security_terms ==
    <<<<"s", "e", "c", "u", "r", "i", "t", "y">>,
      <<"p", "r", "i", "v", "a", "c", "y">>,
      <<"c", "y", "b", "e", "r", "s", "e", "c", "u", "r", "i", "t", "y">>,
      <<"h", "a", "c", "k", "e", "r">>,
      <<"h", "a", "c", "k", "i", "n", "g">>,
      <<"i", "n", "f", "o", "s", "e", "c">>,
      <<"c", "y", "b", "e", "r">>,
      <<"e", "n", "c", "r", "y", "p", "t", "i", "o", "n">>,
      <<"v", "p", "n">>,
      <<"d", "a", "t", "a", " ", "p", "r", "o", "t", "e", "c", "t", "i", "o",
        "n">>,
      <<"o", "p", "s", "e", "c">>,
      <<"o", "s", "i", "n", "t">>,
      <<"p", "e", "n", "e", "t", "r", "a", "t", "i", "o", "n", " ", "t", "e",
        "s", "t">>,
      <<"p", "e", "n", "t", "e", "s", "t">>,
      <<"s", "e", "c", "u", "r", "e">>,
      <<"p", "r", "o", "t", "e", "c", "t", "i", "o", "n">>,
      <<"f", "i", "r", "e", "w", "a", "l", "l">>,
      <<"m", "a", "l", "w", "a", "r", "e">>,
      <<"p", "h", "i", "s", "h", "i", "n", "g">>,
      <<"b", "r", "e", "a", "c", "h">>,
      <<"e", "x", "p", "l", "o", "i", "t">>,
      <<"v", "u", "l", "n", "e", "r", "a", "b", "i", "l", "i", "t", "y">>,
      <<"c", "i", "s", "o">>,
      <<"s", "e", "c", "u", "r", "i", "t", "y", " ", "e", "x", "p", "e", "r",
        "t">>,
      <<"s", "e", "c", "u", "r", "i", "t", "y", " ", "p", "r", "o", "f", "e",
        "s", "s", "i", "o", "n", "a", "l">>,
      <<"p", "r", "i", "v", "a", "c", "y", " ", "a", "d", "v", "o", "c", "a",
        "t", "e">>,
      <<"d", "i", "g", "i", "t", "a", "l", " ", "p", "r", "i", "v", "a", "c",
        "y">>,
      <<"i", "d", "e", "n", "t", "i", "t", "y", " ", "t", "h", "e", "f",
        "t">>,
      <<"o", "n", "l", "i", "n", "e", " ", "s", "a", "f", "e", "t", "y">>,
      <<"d", "i", "g", "i", "t", "a", "l", " ", "s", "e", "c", "u", "r", "i",
        "t", "y">>,
      <<"t", "h", "r", "e", "a", "t">>,
      <<"c", "y", "b", "e", "r", "c", "r", "i", "m", "e">>,
      <<"c", "y", "b", "e", "r", "t", "h", "r", "e", "a", "t", "s">>,
      <<"e", "n", "c", "r", "y", "p", "t", "i", "o", "n">>,
      <<"s", "e", "c", "u", "r", "e", " ", "m", "e", "s", "s", "a", "g", "i",
        "n", "g">>,
      <<"2", "f", "a">>,
      <<"m", "f", "a">>,
      <<"a", "u", "t", "h", "e", "n", "t", "i", "c", "a", "t", "i", "o",
        "n">>,
      <<"s", "e", "c", "u", "r", "i", "t", "y", " ", "a", "w", "a", "r", "e",
        "n", "e", "s", "s">>,
      <<"s", "e", "c", "u", "r", "i", "t", "y", " ", "t", "i", "p", "s">>,
      <<"p", "r", "i", "v", "a", "c", "y", " ", "t", "i", "p", "s">>,
      <<"d", "a", "t", "a", " ", "b", "r", "e", "a", "c", "h">>,
      <<"i", "n", "f", "o", "r", "m", "a", "t", "i", "o", "n", " ", "s", "e",
        "c", "u", "r", "i", "t", "y">>,
      <<"p", "e", "r", "s", "o", "n", "a", "l", " ", "d", "a", "t", "a">>,
      <<"s", "u", "r", "v", "e", "i", "l", "l", "a", "n", "c", "e">>,
      <<"c", "y", "b", "e", "r", " ", "a", "t", "t", "a", "c", "k">>,
      <<"d", "i", "g", "i", "t", "a", "l", " ", "f", "o", "o", "t", "p", "r",
        "i", "n", "t">>,
      <<"a", "n", "o", "n", "y", "m", "i", "t", "y">>>>

\* lines 26-33
professional_terms ==
    <<<<"s", "e", "c", "u", "r", "i", "t", "y", " ", "r", "e", "s", "e", "a",
      "r", "c", "h", "e", "r">>,
      <<"p", "r", "i", "v", "a", "c", "y", " ", "r", "e", "s", "e", "a", "r",
        "c", "h", "e", "r">>,
      <<"c", "y", "b", "e", "r", "s", "e", "c", "u", "r", "i", "t", "y", " ",
        "e", "x", "p", "e", "r", "t">>,
      <<"e", "t", "h", "i", "c", "a", "l", " ", "h", "a", "c", "k", "e",
        "r">>,
      <<"s", "e", "c", "u", "r", "i", "t", "y", " ", "a", "n", "a", "l", "y",
        "s", "t">>,
      <<"p", "r", "i", "v", "a", "c", "y", " ", "a", "d", "v", "o", "c", "a",
        "t", "e">>,
      <<"i", "n", "f", "o", "s", "e", "c">>,
      <<"s", "e", "c", "u", "r", "i", "t", "y", " ", "e", "n", "g", "i", "n",
        "e", "e", "r">>,
      <<"c", "i", "s", "o">>,
      <<"s", "e", "c", "u", "r", "i", "t", "y", " ", "p", "r", "o", "f", "e",
        "s", "s", "i", "o", "n", "a", "l">>,
      <<"c", "y", "b", "e", "r", "s", "e", "c", "u", "r", "i", "t", "y", " ",
        "p", "r", "o", "f", "e", "s", "s", "i", "o", "n", "a", "l">>,
      <<"p", "e", "n", "e", "t", "r", "a", "t", "i", "o", "n", " ", "t", "e",
        "s", "t", "e", "r">>,
      <<"p", "r", "i", "v", "a", "c", "y", " ", "l", "a", "w", "y", "e",
        "r">>,
      <<"c", "y", "b", "e", "r", "s", "e", "c", "u", "r", "i", "t", "y", " ",
        "c", "o", "n", "s", "u", "l", "t", "a", "n", "t">>,
      <<"s", "e", "c", "u", "r", "i", "t", "y", " ", "s", "p", "e", "c", "i",
        "a", "l", "i", "s", "t">>,
      <<"d", "i", "g", "i", "t", "a", "l", " ", "f", "o", "r", "e", "n", "s",
        "i", "c", "s">>,
      <<"s", "e", "c", "u", "r", "i", "t", "y", " ", "c", "o", "n", "s", "u",
        "l", "t", "a", "n", "t">>,
      <<"s", "e", "c", "u", "r", "i", "t", "y", " ", "a", "d", "v", "i", "s",
        "o", "r">>,
      <<"p", "r", "i", "v", "a", "c", "y", " ", "c", "o", "n", "s", "u", "l",
        "t", "a", "n", "t">>,
      <<"s", "e", "c", "u", "r", "i", "t", "y", " ", "a", "u", "d", "i", "t",
        "o", "r">>,
      <<"r", "e", "d", " ", "t", "e", "a", "m">>,
      <<"b", "l", "u", "e", " ", "t", "e", "a", "m">>,
      <<"s", "e", "c", "u", "r", "i", "t", "y", " ", "a", "r", "c", "h", "i",
        "t", "e", "c", "t">>,
      <<"i", "n", "f", "o", "r", "m", "a", "t", "i", "o", "n", " ", "s", "e",
        "c", "u", "r", "i", "t", "y">>,
      <<"i", "t", " ", "s", "e", "c", "u", "r", "i", "t", "y">>>>

\* line 55: the terms looked for in the display name
display_name_terms ==
    <<<<"s", "e", "c", "u", "r", "i", "t", "y">>,
      <<"c", "y", "b", "e", "r">>,
      <<"h", "a", "c", "k", "e", "r">>,
      <<"p", "r", "i", "v", "a", "c", "y">>,
      <<"i", "n", "f", "o", "s", "e", "c">>,
      <<"e", "n", "c", "r", "y", "p", "t", "i", "o", "n">>,
      <<"m", "a", "l", "w", "a", "r", "e">>,
      <<"d", "i", "g", "i", "t", "a", "l", " ", "s", "a", "f", "e", "t",
        "y">>>>

\* line 76
credentials ==
    <<<<"c", "i", "s", "s", "p">>,
      <<"c", "e", "h">>,
      <<"s", "e", "c", "u", "r", "i", "t", "y", "+">>,
      <<"s", "e", "c", "+">>,
      <<"c", "i", "s", "a">>,
      <<"o", "s", "c", "p">>,
      <<"c", "c", "s", "p">>>>

\* lines 116-121: security_terms of security_privacy_relevance_score
scoring_terms ==
    <<<<"s", "e", "c", "u", "r", "i", "t", "y">>,
      <<"p", "r", "i", "v", "a", "c", "y">>,
      <<"c", "y", "b", "e", "r", "s", "e", "c", "u", "r", "i", "t", "y">>,
      <<"h", "a", "c", "k", "e", "r">>,
      <<"i", "n", "f", "o", "s", "e", "c">>,
      <<"c", "y", "b", "e", "r">>,
      <<"e", "n", "c", "r", "y", "p", "t", "i", "o", "n">>,
      <<"v", "p", "n">>,
      <<"d", "a", "t", "a", " ", "p", "r", "o", "t", "e", "c", "t", "i", "o",
        "n">>,
      <<"m", "a", "l", "w", "a", "r", "e">>,
      <<"p", "h", "i", "s", "h", "i", "n", "g">>,
      <<"e", "x", "p", "l", "o", "i", "t">>,
      <<"v", "u", "l", "n", "e", "r", "a", "b", "i", "l", "i", "t", "y">>,
      <<"t", "h", "r", "e", "a", "t">>,
      <<"s", "e", "c", "u", "r", "e">>,
      <<"a", "u", "t", "h", "e", "n", "t", "i", "c", "a", "t", "i", "o",
        "n">>,
      <<"i", "n", "f", "o", "r", "m", "a", "t", "i", "o", "n", " ", "s", "e",
        "c", "u", "r", "i", "t", "y">>,
      <<"d", "i", "g", "i", "t", "a", "l", " ", "p", "r", "i", "v", "a", "c",
        "y">>,
      <<"i", "d", "e", "n", "t", "i", "t", "y", " ", "p", "r", "o", "t", "e",
        "c", "t", "i", "o", "n">>>>

\* "term in text" for some term of the list
HasTerm(text, terms) == \E i \in 1..Len(terms) : HasSub(text, terms[i])

\* sum(1 for term in terms if term in text): one per list entry
CountTerms(text, terms) ==
    Cardinality({i \in 1..Len(terms) : HasSub(text, terms[i])})

\* a user as both helpers read it; videos holds the titles
NicheUser(name, display, biography, followers, titles) ==
    [username |-> name, display_name |-> display, bio |-> biography,
     follower_count |-> followers, videos |-> titles]

\* "privacy" in username.lower() or "security" in username.lower()
GenericName(u) ==
    \/ HasSub(Lower(u.username), T.privacy)
    \/ HasSub(Lower(u.username), T.security)

GenericMinFollowers == 5000

MinFollowers == 1000

DisplayNameFollowers == 10000

MinTermCount == 2

MinVideos == 3

VideosChecked == 8

\* lines 44-50: TRUE when the follower check lets the user through
FollowerCheck(u) ==
    IF GenericName(u) THEN u.follower_count >= GenericMinFollowers
    ELSE u.follower_count >= MinFollowers

\* lines 53-59
DisplayNameRule(u) ==
    /\ u.display_name # <<>>
    /\ HasTerm(Lower(u.display_name), display_name_terms)
    /\ u.follower_count > DisplayNameFollowers

\* lines 82-96: the videos among the first 8 whose title holds a term
security_video_count(u) ==
    Cardinality({i \in 1..Min(VideosChecked, Len(u.videos)) :
                    HasTerm(Lower(u.videos[i]), security_terms)})

\* security_video_count >= min(4, len(videos) / 2), doubled
VideoRule(u) ==
    /\ Len(u.videos) >= MinVideos
    /\ 2 * security_video_count(u) >= Min(VideosChecked, Len(u.videos))

\* lines 62-79
BioRule(u) ==
    /\ u.bio # <<>>
    /\ \/ HasTerm(Lower(u.bio), professional_terms)
       \/ CountTerms(Lower(u.bio), security_terms) >= MinTermCount
       \/ HasTerm(Lower(u.bio), credentials)

is_security_privacy_focused(u) ==
    /\ FollowerCheck(u)
    /\ \/ DisplayNameRule(u)
       \/ BioRule(u)
       \/ VideoRule(u)

\* lines 125-137, in hundredths
follower_score(n) ==
    IF n > 500000 THEN 50
    ELSE IF n > 100000 THEN 40
    ELSE IF n > 50000 THEN 30
    ELSE IF n > 10000 THEN 20
    ELSE IF n > 5000 THEN 10
    ELSE IF n > 1000 THEN 5
    ELSE 0

ScoredVideos == 5

\* lines 164-176, in tenths: the video at index i (from 0) with a term in
\* its title adds 1 - i * 0.1
RECURSIVE security_videos(_, _)
security_videos(titles, i) ==
    IF i >= Min(ScoredVideos, Len(titles)) THEN 0
    ELSE (IF HasTerm(Lower(titles[i + 1]), scoring_terms)
          THEN 10 - i ELSE 0)
         + security_videos(titles, i + 1)

\* lines 182-189
username_score(u) ==
    IF \/ HasSub(Lower(u.username), T.cyber)
       \/ HasSub(Lower(u.username), T.infosec)
       \/ HasSub(Lower(u.username), T.malware)
    THEN 15
    ELSE IF GenericName(u) THEN 10
    ELSE 0

\* lines 194-196
Penalty(u) ==
    IF GenericName(u) /\ u.bio = <<>>
          /\ u.follower_count < GenericMinFollowers
    THEN 50 ELSE 0

\* the sum before the cap of line 199
RawScore(u) ==
    follower_score(u.follower_count)
    + (IF u.display_name # <<>>
          /\ HasTerm(Lower(u.display_name), scoring_terms)
       THEN 20 ELSE 0)
    + (IF u.bio # <<>>
       THEN Min(40, CountTerms(Lower(u.bio), scoring_terms) * 10) ELSE 0)
    + (IF u.videos # <<>>
       THEN Min(30, security_videos(u.videos, 0)) ELSE 0)
    + username_score(u)
    - Penalty(u)

\* in hundredths
security_privacy_relevance_score(u) == Max(0, Min(RawScore(u), 100))

MaxVideos == 5

\* k titles on the niche, then m titles off it
Titles(k, m) ==
    [i \in 1..(k + m) |-> IF i <= k THEN T.vpn_tips ELSE T.cats]

VideoSamples ==
    {Titles(k, m) : k \in 0..MaxVideos, m \in 0..MaxVideos} \cap
    UNION {[1..n -> {T.vpn_tips, T.cats}] : n \in 0..MaxVideos}

NicheFollowers == {999, 1000, 2000, 4999, 5000, 10001, 600000}

NicheUsers ==
    {NicheUser(n, d, b, f, v) :
        n \in {T.joe, T.privacy_joe, T.cybersecurity_joe},
        d \in {T.Joe, T.Cyber_Joe},
        b \in {<<>>, T.encryption, T.vpn, T.cissp, T.red_team},
        f \in NicheFollowers,
        v \in VideoSamples}

NicheFrame ==
    UNCHANGED <<resolver_vars, extractor_vars, scorer_vars, wes_vars,
                gather_vars, validator_vars, direct_vars, rewrite_vars,
                batch_vars,
                order_vars,
                seq_vars>>

InitNiche ==
    /\ niche_pc = "call"
    /\ user \in NicheUsers
    /\ is_focused = FALSE
    /\ relevance_score = 0
    /\ ResolverIdle
    /\ ExtractorIdle
    /\ ScorerIdle
    /\ WesIdle
    /\ GatherIdle
    /\ ValidatorIdle
    /\ DirectIdle
    /\ RewriteIdle
    /\ BatchIdle
    /\ OrderIdle
    /\ SeqIdle

\* both helpers applied to the user
Niche ==
    /\ niche_pc = "call"
    /\ niche_pc' = "done"
    /\ is_focused' = is_security_privacy_focused(user)
    /\ relevance_score' = security_privacy_relevance_score(user)
    /\ UNCHANGED user
    /\ NicheFrame

NextNiche == Niche

SpecNiche == InitNiche /\ [][NextNiche]_vars

\* the distinct security/privacy terms the bio holds
DistinctBioTerms(u) ==
    {security_terms[i] : i \in
        {j \in 1..Len(security_terms) :
            HasSub(Lower(u.bio), security_terms[j])}}

\* more than half of the recent captions are on the niche
CaptionMajority(u) ==
    /\ u.videos # <<>>
    /\ 2 * security_video_count(u) > Min(VideosChecked, Len(u.videos))

\* C27: is_security_privacy_focused returns false for every user with fewer
\* than 1000 followers and for every user with "privacy" or "security" in
\* the username and fewer than 5000 followers; when it returns true, the
\* follower threshold is met and the bio holds a professional-role term, or
\* the bio holds the required number of security/privacy terms, or a
\* majority of the recent captions are on the niche.
C27_DetectorRules ==
    niche_pc = "done" =>
        /\ user.follower_count < MinFollowers => ~is_focused
        /\ (GenericName(user) /\ user.follower_count < GenericMinFollowers)
              => ~is_focused
        /\ is_focused =>
              /\ FollowerCheck(user)
              /\ \/ HasTerm(Lower(user.bio), professional_terms)
                 \/ Cardinality(DistinctBioTerms(user)) >= MinTermCount
                 \/ CaptionMajority(user)

\* C28: a bio that holds only one security/privacy term, no
\* professional-role term and no credential does not make the detector
\* return true: without the display-name rule and the caption rule the
\* detector returns false.
C28_OneTermBio ==
    (/\ niche_pc = "done"
     /\ Cardinality(DistinctBioTerms(user)) = 1
     /\ ~HasTerm(Lower(user.bio), professional_terms)
     /\ ~HasTerm(Lower(user.bio), credentials)
     /\ ~DisplayNameRule(user)
     /\ ~VideoRule(user)) => ~is_focused

InclusionThreshold == 20

\* C29: security_privacy_relevance_score lies in [0, 1], and an account
\* with "privacy" or "security" in the username, an empty bio and fewer
\* than 5000 followers scores strictly below the 0.2 threshold of
\* search_users, whatever its display name and captions are.
C29_ScoreRange ==
    niche_pc = "done" =>
        /\ relevance_score >= 0
        /\ relevance_score <= 100
        /\ (/\ GenericName(user)
            /\ user.bio = <<>>
            /\ user.follower_count < GenericMinFollowers)
              => relevance_score < InclusionThreshold

\* ------------------------------------------------------------------------
\* search_users, lines 1772-1865: the ordering and the niche filter applied
\* to the enriched users

location_keywords ==
    <<Q.from, Q.in,
      <<"l", "o", "c", "a", "t", "e", "d", " ", "i", "n">>,
      <<"b", "a", "s", "e", "d", " ", "i", "n">>>>

\* lines 1777-1781: "keyword in query_lower" for some keyword
location_search(q) == HasTerm(Lower(Join(q)), location_keywords)

\* lines 1786-1790: the first word after the first " from ", "" when the
\* query holds no " from "
target_location(q) ==
    LET at == {i \in 2..(Len(q) - 1) : Lower(q[i]) = Q.from}
    IN IF at = {} THEN <<>>
       ELSE Lower(q[(CHOOSE i \in at : \A j \in at : i <= j) + 1])

NameMatch == 10

BioMatch == 5

\* lines 1800-1805
location_score(u, target) ==
    IF target = <<>> THEN 0
    ELSE (IF \/ HasSub(Lower(u.username), target)
             \/ HasSub(Lower(u.display_name), target)
          THEN NameMatch ELSE 0)
         + (IF HasSub(Lower(u.bio), target) THEN BioMatch ELSE 0)

FollowerCap == 1000000

\* the key (location_score, follower_score) of line 1812 as one number:
\* follower_score is min(follower_count / 1000000, 1), here in millionths
LocationKeys(list, target) ==
    [i \in 1..Len(list) |->
        location_score(list[i], target) * (FollowerCap + 1)
        + Min(list[i].follower_count, FollowerCap)]

\* the key (-security_relevance, -follower_count) of line 1854 as one
\* number for a descending sort; follower counts stay below 10000000
SecurityKeys(list) ==
    [i \in 1..Len(list) |->
        security_privacy_relevance_score(list[i]) * 10000000
        + list[i].follower_count]

\* line 1827
security_query(q) ==
    \/ HasSub(Lower(Join(q)), T.privacy)
    \/ HasSub(Lower(Join(q)), T.security)

PassesThreshold(u) ==
    security_privacy_relevance_score(u) >= InclusionThreshold

PassesQuality(u) == PassesThreshold(u) /\ is_security_privacy_focused(u)

EnoughUsers == 3

\* lines 1837-1851
NicheFilter(list) ==
    LET filtered_users == SelectSeq(list, PassesThreshold)
        quality_users == SelectSeq(filtered_users, is_security_privacy_focused)
    IN IF Len(quality_users) >= EnoughUsers THEN quality_users
       ELSE IF Len(filtered_users) >= EnoughUsers THEN filtered_users
       ELSE list

\* lines 1784-1822: the first sort; every analysis_result score is the 0.5
\* fallback of analyze_profile_relevance, so the sort of line 1819 keeps
\* the order
FirstSort(req, list) ==
    IF location_search(req.query)
    THEN SortDesc(list, LocationKeys(list, target_location(req.query)))
    ELSE IF req.deep_analysis THEN list
    ELSE SortDesc(list, FollowerKeys(list))

\* lines 1825-1865
FinalOrder(req, list) ==
    LET sorted == FirstSort(req, list)
    IN IF req.criteria
       THEN IF security_query(req.query)
            THEN LET kept == NicheFilter(sorted)
                 IN SortDesc(kept, SecurityKeys(kept))
            ELSE IF location_search(req.query) THEN sorted
            ELSE SortDesc(sorted, FollowerKeys(sorted))
       ELSE SortDesc(sorted, FollowerKeys(sorted))

MaxUsers == 3

\* enriched users: a name-only match with few followers, users matching
\* the location by username, display name or bio, and users on the niche
UserPool ==
    {NicheUser(T.rome_joe, T.Joe, <<>>, 50, <<>>),
     NicheUser(T.joe, T.Joe_Rome, T.in_rome, 2000000, <<>>),
     NicheUser(T.joe, T.Cyber_Joe, T.encryption, 600000, <<>>),
     NicheUser(T.privacy_joe, T.Joe, T.vpn, 10001, <<>>),
     NicheUser(T.privacy_joe, T.Cyber_Joe, T.encryption, 600000, <<>>),
     NicheUser(T.cybersecurity_joe, T.Cyber_Joe, T.encryption, 2000000,
               <<>>)}

OrderQueries ==
    {<<Q.creator>>, <<Q.creator, Q.from, Q.rome>>, <<Q.security>>,
     <<Q.security, Q.from, Q.rome>>}

Requests ==
    [query : OrderQueries, criteria : BOOLEAN, deep_analysis : BOOLEAN]

InitOrder ==
    /\ order_pc = "sort"
    /\ request \in Requests
    /\ enriched \in UNION {[1..n -> UserPool] : n \in 0..MaxUsers}
    /\ returned = <<>>
    /\ ResolverIdle
    /\ ExtractorIdle
    /\ ScorerIdle
    /\ WesIdle
    /\ GatherIdle
    /\ ValidatorIdle
    /\ DirectIdle
    /\ RewriteIdle
    /\ NicheIdle
    /\ BatchIdle
    /\ SeqIdle

\* the end of search_users from line 1772 on
Order ==
    /\ order_pc = "sort"
    /\ order_pc' = "done"
    /\ returned' = FinalOrder(request, enriched)
    /\ UNCHANGED <<request, enriched>>
    /\ UNCHANGED <<resolver_vars, extractor_vars, scorer_vars, wes_vars,
                   gather_vars, validator_vars, direct_vars, rewrite_vars,
                   niche_vars, batch_vars, seq_vars>>

NextOrder == Order

SpecOrder == InitOrder /\ [][NextOrder]_vars

\* C25: in the list returned for a query "... from <location>", every user
\* whose username, display name or bio matches the location stands before
\* every user with no match, with or without criteria and deep analysis,
\* and among users with the same location indicator a user with more
\* followers stands first.
C25_LocationFirst ==
    (order_pc = "done" /\ target_location(request.query) # <<>>) =>
        LET Score(u) == location_score(u, target_location(request.query))
        IN \A i, j \in 1..Len(returned) :
              i < j =>
                 /\ Score(returned[j]) > 0 => Score(returned[i]) > 0
                 /\ Score(returned[i]) = Score(returned[j]) =>
                       returned[i].follower_count
                          >= returned[j].follower_count

\* C26: for every query on security or privacy the niche filter is applied
\* and relaxes in steps: the users that score at least 0.2 and pass
\* is_security_privacy_focused when there are at least 3 of them,
\* otherwise the users that score at least 0.2 when there are at least 3
\* of them, otherwise all enriched users; the result is ordered by
\* security relevance descending, then by follower count descending, and
\* is empty only if no user was enriched.
C26_NicheFilterRelaxes ==
    (order_pc = "done" /\ security_query(request.query)) =>
        LET quality == SelectSeq(enriched, PassesQuality)
            filtered == SelectSeq(enriched, PassesThreshold)
            Kept(u) == IF Len(quality) >= EnoughUsers THEN PassesQuality(u)
                       ELSE IF Len(filtered) >= EnoughUsers
                       THEN PassesThreshold(u)
                       ELSE TRUE
            Rel(u) == security_privacy_relevance_score(u)
        IN /\ Len(returned) = Len(SelectSeq(enriched, Kept))
           /\ \A i \in 1..Len(returned) : Kept(returned[i])
           /\ \A i, j \in 1..Len(returned) :
                 i < j =>
                    \/ Rel(returned[i]) > Rel(returned[j])
                    \/ /\ Rel(returned[i]) = Rel(returned[j])
                       /\ returned[i].follower_count
                             >= returned[j].follower_count
           /\ returned = <<>> => enriched = <<>>

\* ------------------------------------------------------------------------
\* the candidate loops of web_enhanced_search (lines 1344-1434) and of
\* search_users (lines 1671-1770) at the grain of their requests and waits

MaxCandidates == 3

MaxRequests == 3

\* the handler is inside a blocking call (requests.get, the LLM client) or
\* inside "await asyncio.sleep(...)"
Awaiting_never == FALSE

Awaiting == outstanding # {} \/ asleep

SeqFrame ==
    UNCHANGED <<resolver_vars, extractor_vars, scorer_vars, wes_vars,
                gather_vars, validator_vars, direct_vars, rewrite_vars,
                niche_vars, batch_vars, order_vars>>

\* the next statement after the work on the current candidate: back to the
\* head of the for loop
NextCandidate ==
    /\ seq_pc' = "head"
    /\ finished' = finished \cup {current}
    /\ UNCHANGED <<phase, attempts, asleep>>

\* a phase that sends requests begins
Begin(p) ==
    /\ seq_pc' = "call"
    /\ phase' = p
    /\ attempts' = 0
    /\ UNCHANGED <<finished, asleep>>

\* lines 1344-1350 and 1673: the head of the loop
SeqHead ==
    /\ seq_pc = "head"
    /\ ~Awaiting
    /\ IF current < MaxCandidates
       THEN /\ current' = current + 1
            /\ Begin("resolver")
       ELSE /\ seq_pc' = "done"
            /\ UNCHANGED <<current, phase, attempts, finished, asleep>>
    /\ UNCHANGED <<orchestrator, outstanding, answer, backoffs>>
    /\ SeqFrame

\* one requests.get of get_user_by_username or get_user_videos, or the LLM
\* call of line 1728: the request leaves; past the retry budget the phase
\* ends without a request
SeqCall ==
    /\ seq_pc = "call"
    /\ ~Awaiting
    /\ IF attempts < MaxRequests
       THEN /\ outstanding' =
                  {[to |-> IF phase = "llm" THEN "llm" ELSE "provider",
                    candidate |-> current]}
            /\ attempts' = attempts + 1
            /\ seq_pc' = "answer"
            /\ UNCHANGED answer
       ELSE /\ seq_pc' = "after"
            /\ answer' = "exhausted"
            /\ UNCHANGED <<outstanding, attempts>>
    /\ UNCHANGED <<orchestrator, current, phase, finished, asleep, backoffs>>
    /\ SeqFrame

\* the provider or the LLM answers: a usable answer, one that makes the
\* code wait and try again, one that makes it go on without waiting
SeqResponse(kind) ==
    /\ outstanding # {}
    /\ outstanding' = {}
    /\ answer' = kind
    /\ UNCHANGED <<seq_pc, orchestrator, current, phase, attempts, finished,
                   asleep, backoffs>>
    /\ SeqFrame

\* the statements after the call: return, "await asyncio.sleep(...)" and
\* the next iteration, or the next iteration at once; the LLM call is not
\* retried
SeqReply ==
    /\ seq_pc = "answer"
    /\ ~Awaiting
    /\ IF answer = "ok" \/ phase = "llm"
       THEN /\ seq_pc' = "after"
            /\ UNCHANGED <<asleep, backoffs>>
       ELSE /\ seq_pc' = "call"
            /\ asleep' = (answer = "retry")
            /\ backoffs' =
                  IF answer = "retry"
                  THEN [backoffs EXCEPT ![current] = @ + 1]
                  ELSE backoffs
    /\ UNCHANGED <<orchestrator, current, phase, attempts, finished,
                   outstanding, answer>>
    /\ SeqFrame

\* asyncio.sleep returns
SeqWake ==
    /\ asleep
    /\ asleep' = FALSE
    /\ UNCHANGED <<seq_pc, orchestrator, current, phase, attempts, finished,
                   outstanding, answer, backoffs>>
    /\ SeqFrame

\* what follows a finished phase. After the resolver, web_enhanced_search
\* drops the candidate ("no_data", the quality gate, the threshold), or
\* fetches its videos, or appends it; search_users drops it ("no_data",
\* the criteria), asks the LLM (deep_analysis), or appends it. After the
\* videos or the LLM call the candidate is appended.
SeqAfter(outcome) ==
    /\ seq_pc = "after"
    /\ ~Awaiting
    /\ IF phase = "resolver" /\ outcome = "videos"
          /\ orchestrator = "wes"
       THEN Begin("videos")
       ELSE IF phase = "resolver" /\ outcome = "deep_analysis"
               /\ orchestrator = "su"
       THEN Begin("llm")
       ELSE NextCandidate
    /\ UNCHANGED <<orchestrator, current, outstanding, answer, backoffs>>
    /\ SeqFrame

InitSequential ==
    /\ seq_pc = "head"
    /\ orchestrator \in {"wes", "su"}
    /\ current = 0
    /\ phase = "none"
    /\ attempts = 0
    /\ outstanding = {}
    /\ asleep = FALSE
    /\ answer = "none"
    /\ finished = {}
    /\ backoffs = [c \in 1..MaxCandidates |-> 0]
    /\ ResolverIdle
    /\ ExtractorIdle
    /\ ScorerIdle
    /\ WesIdle
    /\ GatherIdle
    /\ ValidatorIdle
    /\ DirectIdle
    /\ RewriteIdle
    /\ NicheIdle
    /\ BatchIdle
    /\ OrderIdle

NextSequential ==
    \/ SeqHead
    \/ SeqCall
    \/ \E kind \in {"ok", "retry", "next"} : SeqResponse(kind)
    \/ SeqReply
    \/ SeqWake
    \/ \E outcome \in {"drop", "append", "videos", "deep_analysis"} :
          SeqAfter(outcome)

SpecSequential == InitSequential /\ [][NextSequential]_vars

\* C30: within one request at most one provider or LLM request is
\* outstanding at any time, it belongs to the candidate being processed,
\* and the work on the next candidate starts only when the work on the
\* current one, with its retries and backoff waits, has finished.
C30_Sequential ==
    /\ [][current' # current =>
             /\ outstanding = {}
             /\ ~asleep
             /\ (current = 0 \/ current \in finished)]_vars
    /\ [](/\ Cardinality(outstanding) <= 1
          /\ \A r \in outstanding : r.candidate = current
          /\ asleep => outstanding = {})

\* the second candidate has a request outstanding after the first one was
\* finished with a backoff wait
C30_Witness ==
    /\ current = 2
    /\ outstanding # {}
    /\ 1 \in finished
    /\ backoffs[1] > 0

\* the resolver and its caller search_users
InitEnrichment == InitResolver \/ InitGather

NextEnrichment ==
    \/ \E kind \in OutcomeKinds : \E p \in ProfilesOf(kind) :
          Approach1(kind, p)
    \/ \E kind \in OutcomeKinds : \E p \in ProfilesOf(kind) :
          Approach2(kind, p)
    \/ \E kind \in OutcomeKinds3 : \E users \in UserListsOf(kind, username) :
          Approach3(kind, users)
    \/ \E kind \in OutcomeKinds : \E p \in ProfilesOf(kind) :
          Approach4(kind, p)
    \/ \E reply \in DirectReplies : SfpDirect(reply)
    \/ \E tav \in GatherTavilyResults : SfpWeb(tav)
    \/ \E reply \in BatchReplies : SfpScore(reply)
    \/ \E tav \in GatherTavilyResults : SuWeb(tav)
    \/ \E reply \in DirectReplies : SuDirect(reply)
    \/ \E res \in SuResolverResults(SuHandleAt) : SuEnrich(res)

SpecEnrichment == InitEnrichment /\ [][NextEnrichment]_vars

\* the entries of the user list that carry the handle u, letter case aside
Matching(list, u) ==
    {i \in 1..Len(list) :
        list[i].has_info /\ Lower(list[i].unique_id) = Lower(u)}

C18_WitnessOtherAccount ==
    /\ pc = "done"
    /\ result_from = 3
    /\ Matching(user_list, username) = {}
    /\ user_list[1].unique_id = H.eve
    /\ result[1].nickname = NickText("Nick")

InitSearch == InitWes \/ InitGather

NextSearch ==
    \/ \E c \in CriteriaCompletions : WesCriteria(c)
    \/ \E tav \in TavilyResults : WesSearch(tav)
    \/ \E reply \in BatchReplies : WesBatch(reply)
    \/ \E res \in ResolverResults(HandleAt(usernames)) : WesEnrich(res)
    \/ \E res \in ResolverResults(HandleAt(top_usernames)) : WesDegrade(res)
    \/ \E reply \in DirectReplies : SfpDirect(reply)
    \/ \E tav \in GatherTavilyResults : SfpWeb(tav)
    \/ \E reply \in BatchReplies : SfpScore(reply)
    \/ \E tav \in GatherTavilyResults : SuWeb(tav)
    \/ \E reply \in DirectReplies : SuDirect(reply)
    \/ \E res \in SuResolverResults(SuHandleAt) : SuEnrich(res)

SpecSearch == InitSearch /\ [][NextSearch]_vars

\* web_enhanced_search has made its web search (a request whose criteria
\* call raised ended before it)
WesSearched ==
    /\ wes_pc \notin {"idle", "criteria", "search"}
    /\ criteria_completion \notin {"raises", "no_choices"}

\* the web search failed, returned no hits, or no hit holds a valid handle
WebYieldsNothing ==
    \/ IsNone(tavily_results)
    \/ \A i \in 1..Len(tavily_results[1]) :
          extract_tiktok_usernames(tavily_results[1][i].url,
                                   tavily_results[1][i].found) = <<>>

\* search_users has asked both connectors
SuSearched == gather_pc \in {"su_enrich", "su_done"}

====
